---- MODULE Spec2Model ----
(***************************************************************************)
(* Model of the EDO agreement generator: the counterparty orchestrator     *)
(* (modules/agreement_processor.py), the registry store                    *)
(* (modules/database_manager.py) and the error dialog of the GUI           *)
(* (main.py).                                                              *)
(*                                                                         *)
(* Text values the code treats character by character (tax ID, KPP) are    *)
(* sequences of one-character strings.  Russian literals of the source are *)
(* transliterated: "IP" is the sole-proprietor sentinel, STATUS_SENT the   *)
(* status label written after a transmission.                              *)
(***************************************************************************)
EXTENDS Integers, Sequences, FiniteSets, TLC

(***************************************************************************)
(* Bounds of the model.                                                    *)
(***************************************************************************)
\* rows of the source listing
MaxRows == 3
\* retry decisions the arbitration sink gives during one run
MaxRetryDecisions == 1

\* calls of handle_error and starts of the worker thread the window is
\* followed through
MaxRequests == 2

MaxStarts == 2

\* length of the longest text _fix_inn_format is given on its own
MaxInnLen == 4

\* length of the longest reply of the chat API taken from every text
MaxReplyLen == 3

\* length of the longest name format_fio_short is given, of every text
MaxFioLen == 3

(***************************************************************************)
(* Character-level helpers (Python str methods used by _fix_inn_format).   *)
(***************************************************************************)
Digits == {"0", "1", "2", "3", "4", "5", "6", "7", "8", "9"}

Whitespace == {" ", "\t", "\n"}

\* c.isdigit()
IsDigit(c) == c \in Digits

RECURSIVE LStrip(_)
LStrip(s) ==
    IF s # << >> /\ Head(s) \in Whitespace THEN LStrip(Tail(s)) ELSE s

RECURSIVE RStrip(_)
RStrip(s) ==
    IF s # << >> /\ s[Len(s)] \in Whitespace
    THEN RStrip(SubSeq(s, 1, Len(s) - 1))
    ELSE s

\* str.strip()
Strip(s) == RStrip(LStrip(s))

\* str.replace(' ', '')
RemoveSpaces(s) == SelectSeq(s, LAMBDA c : c # " ")

\* str.replace(',', '.')
CommaToDot(s) == [k \in 1..Len(s) |-> IF s[k] = "," THEN "." ELSE s[k]]

\* str.endswith('.0')
EndsWithDotZero(s) ==
    Len(s) >= 2 /\ s[Len(s) - 1] = "." /\ s[Len(s)] = "0"

\* ''.join(c for c in s if c.isdigit())
OnlyDigits(s) == SelectSeq(s, IsDigit)

Contains(s, c) == \E k \in 1..Len(s) : s[k] = c

\* index of the first occurrence of a character of set cs, 0 when none
FirstIndexIn(s, cs) ==
    IF \E k \in 1..Len(s) : s[k] \in cs
    THEN CHOOSE k \in 1..Len(s) :
            s[k] \in cs /\ \A j \in 1..(k - 1) : s[j] \notin cs
    ELSE 0

AllDigits(s) == \A k \in 1..Len(s) : IsDigit(s[k])

RECURSIVE StripLeadingZeros(_)
StripLeadingZeros(s) ==
    IF Len(s) > 1 /\ Head(s) = "0" THEN StripLeadingZeros(Tail(s)) ELSE s

Zeros(n) == [k \in 1..n |-> "0"]

DigitVal(c) ==
    CASE c = "0" -> 0 [] c = "1" -> 1 [] c = "2" -> 2 [] c = "3" -> 3
      [] c = "4" -> 4 [] c = "5" -> 5 [] c = "6" -> 6 [] c = "7" -> 7
      [] c = "8" -> 8 [] c = "9" -> 9

\* value of a short digit string (exponents only)
RECURSIVE DecValue(_)
DecValue(s) ==
    IF s = << >> THEN 0
    ELSE 10 * DecValue(SubSeq(s, 1, Len(s) - 1)) + DigitVal(s[Len(s)])

(***************************************************************************)
(* float(inn_str) followed by int() and str(), for the decimal literals    *)
(* [sign] digits [. digits] (e|E) [sign] digits and [sign] . digits ...;   *)
(* the result is computed on the digit string (the values exceed 32 bits). *)
(* FloatParts(s) is the parsed literal or NoFloat when float() raises.     *)
(***************************************************************************)
NoFloat == [ok |-> FALSE]

SignOf(s) == IF s # << >> /\ Head(s) \in {"+", "-"} THEN Head(s) ELSE ""

Unsigned(s) == IF SignOf(s) = "" THEN s ELSE Tail(s)

FloatParts(s) ==
    LET e == FirstIndexIn(s, {"e", "E"}) IN
    IF e = 0 THEN NoFloat
    ELSE
      LET mant == SubSeq(s, 1, e - 1)
          expo == SubSeq(s, e + 1, Len(s))
          m    == Unsigned(mant)
          x    == Unsigned(expo)
          dot  == FirstIndexIn(m, {"."})
          ip   == IF dot = 0 THEN m ELSE SubSeq(m, 1, dot - 1)
          fp   == IF dot = 0 THEN << >> ELSE SubSeq(m, dot + 1, Len(m))
      IN
      IF /\ x # << >> /\ AllDigits(x)
         /\ AllDigits(ip) /\ AllDigits(fp)
         /\ Len(ip) + Len(fp) > 0
      THEN [ok |-> TRUE, neg |-> SignOf(mant) = "-", ip |-> ip, fp |-> fp,
            exp |-> IF SignOf(expo) = "-" THEN 0 - DecValue(x) ELSE DecValue(x)]
      ELSE NoFloat

\* str(int(float)) of a parsed literal
IntStrOfFloat(f) ==
    LET shifted ==
          IF f.exp >= 0
          THEN f.ip \o (IF Len(f.fp) >= f.exp
                        THEN SubSeq(f.fp, 1, f.exp)
                        ELSE f.fp \o Zeros(f.exp - Len(f.fp)))
          ELSE IF Len(f.ip) > 0 - f.exp
               THEN SubSeq(f.ip, 1, Len(f.ip) + f.exp)
               ELSE << >>
        digits == StripLeadingZeros(IF shifted = << >> THEN <<"0">> ELSE shifted)
    IN IF f.neg /\ digits # <<"0">> THEN <<"-">> \o digits ELSE digits

(***************************************************************************)
(* DatabaseManager._fix_inn_format                                         *)
(***************************************************************************)
_fix_inn_format(inn) ==
    LET inn_str == RemoveSpaces(Strip(inn)) IN
    IF inn = << >> \/ inn_str = << >> THEN << >>
    ELSE IF Contains(inn_str, "E") \/ Contains(inn_str, "e")
    THEN LET f == FloatParts(CommaToDot(inn_str)) IN
         IF f.ok THEN IntStrOfFloat(f) ELSE CommaToDot(inn_str)
    ELSE OnlyDigits(IF EndsWithDotZero(inn_str)
                    THEN SubSeq(inn_str, 1, Len(inn_str) - 2)
                    ELSE inn_str)

(***************************************************************************)
(* datetime.strptime(d, "%d.%m.%Y").date(), as an ordinal that orders like *)
(* the date, or NoDate when strptime raises ValueError.                    *)
(***************************************************************************)
NoDate == 0 - 1

\* s.split('.') for a string with exactly two dots, << >> otherwise
SplitDots(s) ==
    LET dots == {k \in 1..Len(s) : s[k] = "."} IN
    IF Cardinality(dots) # 2 THEN << >>
    ELSE LET a == CHOOSE k \in dots : \A j \in dots : k <= j
             b == CHOOSE k \in dots : \A j \in dots : k >= j
         IN <<SubSeq(s, 1, a - 1), SubSeq(s, a + 1, b - 1),
              SubSeq(s, b + 1, Len(s))>>

IsLeap(y) == (y % 4 = 0 /\ y % 100 # 0) \/ y % 400 = 0

DaysInMonth(m, y) ==
    IF m = 2 THEN (IF IsLeap(y) THEN 29 ELSE 28)
    ELSE IF m \in {4, 6, 9, 11} THEN 30 ELSE 31

StrpDate(s) ==
    LET p == SplitDots(s) IN
    IF p = << >> THEN NoDate
    ELSE IF ~ (/\ Len(p[1]) \in {1, 2} /\ AllDigits(p[1])
               /\ Len(p[2]) \in {1, 2} /\ AllDigits(p[2])
               /\ Len(p[3]) = 4 /\ AllDigits(p[3]))
    THEN NoDate
    ELSE LET d == DecValue(p[1])
             m == DecValue(p[2])
             y == DecValue(p[3])
         IN IF m \in 1..12 /\ y >= 1 /\ d >= 1 /\ d <= DaysInMonth(m, y)
            THEN y * 10000 + m * 100 + d
            ELSE NoDate

\* s.split()[0] of a non-empty stripped string
FirstToken(s) ==
    LET w == FirstIndexIn(s, Whitespace) IN
    IF w = 0 THEN s ELSE SubSeq(s, 1, w - 1)

\* parse_date of process_by_period
parse_date(v) ==
    LET s == Strip(v) IN
    IF s = << >> THEN NoDate ELSE StrpDate(FirstToken(s))

(***************************************************************************)
(* Fixed data of the model: companies, the rows a source listing is made   *)
(* of (as _load_csv returns them: every field text, not yet cleaned), the  *)
(* answers of the external collaborators.                                  *)
(***************************************************************************)
KADIS == "KADIS"

URI == "URI"

Companies == {KADIS, URI}

\* the two tables of _init_database
Tables == {"kadis_counterparties", "uri_counterparties"}

InnAlfa == <<"7", "7", "0", "0", "0", "0", "0", "0", "0", "1">>

InnAlfaDecimal == <<"7", "7", "0", "0", "0", "0", "0", "0", "0", "1", ".", "0">>

InnBeta == <<"7", "8", "0", "0", "0", "0", "0", "0", "0", "2">>

InnIvanov == <<"7", "7", "0", "0", "0", "0", "0", "0", "0", "0", "1", "2">>

InnShort == <<"1", "2", "3", "4", "5">>

KppAlfa == <<"7", "7", "0", "0", "0", "1", "0", "0", "1">>

DateInRange == <<"1", "5", ".", "0", "1", ".", "2", "0", "2", "4", " ", "1", "0", ":", "3", "0">>

DateLastDay == <<"3", "1", ".", "0", "1", ".", "2", "0", "2", "4">>

DateOutOfRange == <<"1", "5", ".", "0", "3", ".", "2", "0", "2", "4">>

DateIso == <<"2", "0", "2", "4", "-", "0", "1", "-", "1", "5">>

\* datetime.now().strftime("%d.%m.%Y %H:%M") of the run
NowStamp == <<"2", "0", ".", "0", "1", ".", "2", "0", "2", "4", " ", "0", "9", ":", "0", "0">>

Row(name, inn, kpp, date) ==
    [org_name |-> name, inn |-> inn, kpp |-> kpp, status_date |-> date]

\* the rows listings are drawn from: an organization whose tax ID a
\* spreadsheet exported with a trailing ".0", a sole proprietor, a tax ID of
\* neither length, an organization outside the period, and a second row of
\* the first organization with a date strptime rejects
RowPool ==
    << Row("OOO Alfa", InnAlfaDecimal, KppAlfa, DateInRange),
       Row("Ivanov I.I.", InnIvanov, << >>, DateLastDay),
       Row("OOO Short", InnShort, << >>, DateInRange),
       Row("OOO Beta", InnBeta, << >>, DateOutOfRange),
       Row("OOO Alfa", InnAlfa, KppAlfa, DateIso) >>

\* a listing: up to MaxRows consecutive rows of the pool, from any start
Listing(start, n) ==
    [k \in 1..n |-> RowPool[((start + k - 2) % Len(RowPool)) + 1]]

Listings == {Listing(start, n) : start \in 1..Len(RowPool), n \in 1..MaxRows}

\* date_from, date_to of process_by_period
PeriodFrom == <<"0", "1", ".", "0", "1", ".", "2", "0", "2", "4">>

PeriodTo == <<"3", "1", ".", "0", "1", ".", "2", "0", "2", "4">>

\* what get_head_by_inn returns: (position, fio)
SOLE == "IP"

HeadResults == {<<SOLE, "Ivanov Ivan Ivanovich">>,
                <<"Direktor", "Petrov Petr Petrovich">>}

\* what convert_to_genitive returns for a head
Genitive(head) == <<"Direktora", "Petrova Petra Petrovicha">>

\* position.lower()
Lower(position) ==
    CASE position = "Direktor" -> "direktor"
      [] position = SOLE -> "ip"
      [] OTHER -> position

STATUS_SENT == "Otpravleno cherez Diadok"

None == "None"

NoHeadInfo == <<None, None>>

NoGen == <<None, None>>

NoPath == <<None, None>>

NoOp == <<None, None, None>>

\* no call of convert_to_genitive, of send_document, is under way
NoConv == [pc |-> "idle"]

NoSend == [pc |-> "idle"]

\* f"IP {fio}" of _process_ip
IpFullName(fio) ==
    CASE fio = "Ivanov Ivan Ivanovich" -> "IP Ivanov Ivan Ivanovich"
      [] fio = "Petrov Petr Petrovich" -> "IP Petrov Petr Petrovich"

\* the (date_from, date_to) pairs a caller passes: the month of January
\* 2024, and a pair whose upper bound is not dd.mm.yyyy
Periods == {<<PeriodFrom, PeriodTo>>, <<PeriodFrom, DateIso>>}

\* the decisions an error callback may return; handle_error returns one of
\* the first three, any other string falls through the if/elif chains
Decisions == {"abort", "retry", "skip", "other"}

(***************************************************************************)
(* The registry: one table per company, a set of rows with inn UNIQUE.     *)
(***************************************************************************)
\* a variant for C25: any name but the first takes the second table
_get_table_name_else(c) ==
    CASE c = KADIS -> "kadis_counterparties"
      [] OTHER -> "uri_counterparties"

\* the table of a company; None stands for the ValueError raised for any
\* other name
_get_table_name(c) ==
    CASE c = KADIS -> "kadis_counterparties"
      [] c = URI -> "uri_counterparties"
      [] OTHER -> None

Inns(table) == {r.inn : r \in table}

\* SELECT 1 FROM table WHERE inn = ? of check_inn_exists
check_inn_exists(table, inn) == _fix_inn_format(inn) \in Inns(table)

\* the row add_counterparty stores: only four fields of data are kept
StoredRow(data) ==
    [org_name |-> data.org_name,
     inn |-> _fix_inn_format(data.inn),
     kpp |-> IF data.kpp # << >> THEN _fix_inn_format(data.kpp) ELSE << >>,
     status_date |-> data.status_date]

\* INSERT OR REPLACE: a row with the same inn is replaced
InsertOrReplace(table, row) == {r \in table : r.inn # row.inn} \cup {row}

\* add_counterparty raises ValueError when the cleaned tax ID is empty
AddRaisesEmptyInn(data) == _fix_inn_format(data.inn) = << >>

\* df['INN'].apply(_fix_inn_format), df['KPP'].apply(...) of both loaders
CleanRow(row) ==
    [row EXCEPT !.inn = _fix_inn_format(row.inn),
                !.kpp = IF Strip(row.kpp) # << >>
                        THEN _fix_inn_format(row.kpp) ELSE << >>]

CleanRows(df) == [k \in 1..Len(df) |-> CleanRow(df[k])]

(***************************************************************************)
(* State.                                                                  *)
(***************************************************************************)
VARIABLES
    \* ---- environment and persistent state
    csv,             \* the source listing (rows as read by _load_csv)
    registry,        \* counterparties.db: company -> set of stored rows
    error_callback,  \* TRUE when set_error_callback has installed a sink
    columnsAttr,     \* TRUE when the db_manager instance carried the
                     \* attribute `columns` when process_by_period read it
    \* ---- the running batch
    entry,           \* "none", "process_counterparties", "process_by_period"
    company,         \* company argument of the run
    date_from,       \* date_from argument of process_by_period
    date_to,         \* date_to argument of process_by_period
    loaded,          \* the listing was read: get_new_counterparties, or
                     \* _load_csv of process_by_period, did not raise
    pc,              \* position of the worker
    rows,            \* new_counterparties, or df of process_by_period
    i,               \* index of the row in hand (0 before the first)
    processed,       \* processed of process_counterparties
    created,         \* created of process_by_period
    result,          \* value returned: (processed, total) or (created)
    \* ---- locals of _process_ip / _process_ul / _get_head_info
    branch,          \* "ip", "ul" or "none"
    attempt,         \* failed attempts of the current _get_head_info call
    reports,         \* attempt numbers logged by the current _get_head_info
    head_info,       \* (position, fio), NoHeadInfo for None
    gen,             \* (position_gen, fio_gen), each None until assigned
    output_path,     \* path of the document created, NoPath before
    stage,           \* stage whose failure is before the error callback
    ret,             \* value returned by _process_ip / _process_ul
    \* ---- history (not program state)
    calls,           \* what was called for the row in hand, and how often
    reconciled,      \* indices of the rows reconciliation inserted
    succeeded,       \* indices of the rows whose processing returned True
    recorded,        \* indices of the rows whose processing wrote the registry
    retries,         \* retry decisions received this run
    abortAt,         \* row index at which the sink answered abort, 0 if none
    failedOpen,      \* collaborators that failed for the row in hand since
                     \* the last retry decision
    decision,        \* what the error callback answered in the step just
                     \* taken, None after any other step
    regAtStart,      \* tax IDs in the company's table when the run started
    \* ---- the window (AgreementGeneratorGUI) and its worker thread
    processing,      \* self.processing
    thread,          \* the thread of process_thread: "none", "running",
                     \* "waiting" (in the loop of handle_error), "done"
    action,          \* result["action"] of the handle_error call in hand
    dialog,          \* the Toplevel of show_dialog: "none", "scheduled",
                     \* "open", "destroyed"
    pending,         \* callback process_thread left with root.after
    tick,            \* flips with every pass of the loop of handle_error
    \* ---- history (not program state)
    chosen,          \* button pressed for the request in hand, None if none
    requests,        \* calls of handle_error so far
    answers,         \* (button pressed, value returned) per call returned
    starts,          \* worker threads started so far
    \* ---- history of the registry taken alone (not program state)
    op,              \* the call of a DatabaseManager method just made:
                     \* (method, company, value returned or "raised")
    \* ---- the collaborators taken alone
    conv,            \* locals of a call of convert_to_genitive
    send,            \* locals of a call of send_document, and the requests
                     \* it has made
    docs             \* the documents fill_*_template saved when taken alone:
                     \* (path, tax ID the document was made for)

guiVars == <<processing, thread, action, dialog, pending, tick, chosen,
            requests, answers, starts>>

\* what only the specifications of a collaborator taken alone change
aloneVars == <<op, conv, send, docs>>

envVars == <<csv, error_callback, guiVars, aloneVars>>

runVars == <<entry, company, date_from, date_to, rows, regAtStart,
            columnsAttr, loaded>>

recVars == <<branch, attempt, reports, head_info, gen, output_path, stage>>

vars == <<csv, registry, error_callback, columnsAttr, entry, company,
          date_from, date_to, loaded, pc, rows, i, processed, created, result,
          branch, attempt, reports, head_info, gen, output_path, stage, ret,
          calls, reconciled, succeeded, recorded, retries, abortAt,
          failedOpen, decision, regAtStart, processing, thread, action, dialog,
          pending, tick, chosen, requests, answers, starts, op, conv, send,
          docs>>

\* the rows of company c's table
Table(c) == registry[_get_table_name(c)]

\* the registry after the INSERT OR REPLACE of add_counterparty(data, c)
Stored(c, data) ==
    [registry EXCEPT ![_get_table_name(c)] =
        InsertOrReplace(@, StoredRow(data))]

\* what is counted for a row: calls of _get_head_info, convert_to_genitive,
\* fill_*_template, send_document, add_counterparty and the error callback,
\* and documents saved
Counted == {"lookup", "normalize", "fill", "document", "send", "dbwrite",
            "arbitration"}

NoCalls == [c \in Counted |-> 0]

\* a variant for C8: one attempt more than the code makes
max_retries_one_more == 3 + 1

\* max_retries of _get_head_info
max_retries == 3

\* registries a run may find: empty, or holding OOO Alfa for KADIS as
\* create_database_from_csv stores it (no status date)
InitRegistries ==
    { [t \in Tables |-> {}],
      [t \in Tables |->
          IF t = _get_table_name(KADIS)
          THEN {[org_name |-> "OOO Alfa", inn |-> InnAlfa, kpp |-> KppAlfa,
                 status_date |-> << >>]}
          ELSE {}] }

Init ==
    /\ csv \in Listings
    /\ registry \in InitRegistries
    /\ error_callback \in BOOLEAN
    /\ columnsAttr = FALSE
    /\ entry = "none"
    /\ company = None
    /\ date_from = << >>
    /\ date_to = << >>
    /\ loaded = FALSE
    /\ pc = "idle"
    /\ rows = << >>
    /\ i = 0
    /\ processed = 0
    /\ created = 0
    /\ result = << >>
    /\ branch = "none"
    /\ attempt = 0
    /\ reports = << >>
    /\ head_info = NoHeadInfo
    /\ gen = NoGen
    /\ output_path = NoPath
    /\ stage = "none"
    /\ ret = FALSE
    /\ calls = NoCalls
    /\ reconciled = {}
    /\ succeeded = {}
    /\ recorded = {}
    /\ retries = 0
    /\ abortAt = 0
    /\ failedOpen = {}
    /\ decision = None
    /\ regAtStart = {}
    /\ processing = FALSE
    /\ thread = "none"
    /\ action = "abort"
    /\ dialog = "none"
    /\ pending = "none"
    /\ tick = FALSE
    /\ chosen = None
    /\ requests = 0
    /\ answers = << >>
    /\ starts = 0
    /\ op = NoOp
    /\ conv = NoConv
    /\ send = NoSend
    /\ docs = {}

(***************************************************************************)
(* _process_ip / _process_ul: the per-record state machine.  Each action   *)
(* is one call of an external collaborator together with the code that     *)
(* runs up to the next call.                                               *)
(***************************************************************************)
\* entry of _process_ip (b = "ip") or _process_ul (b = "ul"); the first
\* thing either does is call _get_head_info.  before: what was counted so
\* far for the row (NoCalls when the loop passes to a new row)
EnterRecord(b, before) ==
    /\ branch' = b
    /\ attempt' = 0
    /\ reports' = << >>
    /\ head_info' = NoHeadInfo
    /\ gen' = NoGen
    /\ output_path' = NoPath
    /\ stage' = "none"
    /\ ret' = FALSE
    /\ failedOpen' = {}
    /\ calls' = [before EXCEPT !["lookup"] = @ + 1]
    /\ pc' = "lookup"

\* go on to the call at position p
Goto(p) ==
    /\ pc' = p
    /\ UNCHANGED <<ret, succeeded, stage>>

\* a variant for C37: the return is not taken, the worker stays where it is
ReturnFromRecordNever(v) ==
    /\ ret' = v
    /\ succeeded' = succeeded
    /\ stage' = stage
    /\ pc' = pc

\* return v from _process_ip / _process_ul
ReturnFromRecord(v) ==
    /\ ret' = v
    /\ succeeded' = IF v THEN succeeded \cup {i} ELSE succeeded
    /\ stage' = stage
    /\ pc' = "recdone"

\* a variant for C9: the failure ends the record and the callback is not
\* called
RaiseArbitrationDropped(st) ==
    /\ stage' = st
    /\ ret' = FALSE
    /\ succeeded' = succeeded
    /\ pc' = "recdone"

\* self.error_callback(...) is called for a failure of stage st
RaiseArbitration(st) ==
    /\ stage' = st
    /\ pc' = "arbitrate"
    /\ UNCHANGED <<ret, succeeded>>

\* the calls counted after a call of collaborator c that failed; the error
\* callback, when installed, is called next
AfterFailure(c) ==
    IF error_callback
    THEN [calls EXCEPT ![c] = @ + 1, !["arbitration"] = @ + 1]
    ELSE [calls EXCEPT ![c] = @ + 1]

\* a variant for C14: the organization path accepts the sentinel
KindMismatchIpOnly(b, position) == b = "ip" /\ position # SOLE

\* the check of the resolved kind against the branch (lines 173, 262)
KindMismatch(b, position) ==
    \/ b = "ip" /\ position # SOLE
    \/ b = "ul" /\ position = SOLE

\* a variant for C17: the stages after the lookup are left out
AfterLookupToSend(b) == "send"

\* a variant for C18: the sole-proprietor path normalizes too
AfterLookupNormalizeAll(b) == "normalize"

\* the call that follows a lookup whose kind matches: fill_ip_template in
\* _process_ip (line 182), convert_to_genitive in _process_ul (line 271)
AfterLookup(b) == IF b = "ip" THEN "fill" ELSE "normalize"

\* one iteration of the loop of _get_head_info, and on its success or
\* exhaustion the code of the caller up to the next call
GetHeadAttempt ==
    /\ decision' = None
    /\ pc = "lookup"
    /\ \E ok \in BOOLEAN :
         IF ok
         THEN \E r \in HeadResults :
                /\ head_info' = r
                /\ UNCHANGED <<attempt, reports, calls>>
                /\ IF KindMismatch(branch, r[1])
                   THEN ReturnFromRecord(FALSE)
                   ELSE Goto(AfterLookup(branch))
         ELSE /\ reports' = Append(reports, attempt + 1)
              /\ attempt' = attempt + 1
              /\ head_info' = head_info
              /\ IF attempt < max_retries - 1
                 THEN Goto("lookup") /\ calls' = calls
                 ELSE IF error_callback
                 THEN /\ RaiseArbitration("lookup")
                      /\ calls' = [calls EXCEPT !["arbitration"] = @ + 1]
                 ELSE ReturnFromRecord(FALSE) /\ calls' = calls
    /\ UNCHANGED <<registry, envVars, runVars, i, processed, created, result,
                   branch, gen, output_path, reconciled, recorded, retries,
                   abortAt, failedOpen>>

\* self.openai_processor.convert_to_genitive(position, fio) of _process_ul
ConvertToGenitive ==
    /\ decision' = None
    /\ pc = "normalize"
    /\ \E ok \in BOOLEAN :
         IF ok
         THEN /\ gen' = Genitive(head_info)
              /\ calls' = [calls EXCEPT !["normalize"] = @ + 1]
              /\ failedOpen' = failedOpen
              /\ Goto("fill")
         ELSE /\ gen' = gen
              /\ calls' = AfterFailure("normalize")
              /\ failedOpen' = failedOpen \cup {"normalize"}
              /\ IF error_callback
                 THEN RaiseArbitration("normalize")
                 ELSE Goto("fill")
    /\ UNCHANGED <<registry, envVars, runVars, i, processed, created, result,
                   branch, attempt, reports, head_info, output_path,
                   reconciled, recorded, retries, abortAt>>

\* str.replace(k, None) raises TypeError: with post_fixed or fio_fixed None
\* fill_ul_template cannot succeed
FillCanSucceed == branch = "ip" \/ (gen[1] # None /\ gen[2] # None)

\* out_path of fill_ip_template / fill_ul_template
OutPath(c, name) == <<c, name>>

DisplayName ==
    IF branch = "ip" THEN IpFullName(head_info[2]) ELSE rows[i].org_name

\* self.doc_processor.fill_ip_template(...) / fill_ul_template(...)
FillTemplate ==
    /\ decision' = None
    /\ pc = "fill"
    /\ \E ok \in BOOLEAN :
         /\ ok => FillCanSucceed
         /\ IF ok
            THEN /\ output_path' = OutPath(company, DisplayName)
                 /\ calls' = [calls EXCEPT !["fill"] = @ + 1,
                                           !["document"] = @ + 1]
                 /\ failedOpen' = failedOpen
                 /\ Goto("send")
            ELSE /\ output_path' = output_path
                 /\ calls' = AfterFailure("fill")
                 /\ failedOpen' = failedOpen \cup {"fill"}
                 /\ IF error_callback
                    THEN RaiseArbitration("fill")
                    ELSE ReturnFromRecord(FALSE)
    /\ UNCHANGED <<registry, envVars, runVars, i, processed, created, result,
                   branch, attempt, reports, head_info, gen, reconciled,
                   recorded, retries, abortAt>>

\* self.diadoc_client.send_document(...) of _send_to_diadoc
SendDocument ==
    /\ decision' = None
    /\ pc = "send"
    /\ \E ok \in BOOLEAN :
         IF ok
         THEN /\ calls' = [calls EXCEPT !["send"] = @ + 1]
              /\ failedOpen' = failedOpen
              /\ Goto("dbwrite")
         ELSE /\ calls' = AfterFailure("send")
              /\ failedOpen' = failedOpen \cup {"send"}
              /\ IF error_callback
                 THEN RaiseArbitration("send")
                 ELSE ReturnFromRecord(FALSE)
    /\ UNCHANGED <<registry, envVars, runVars, i, processed, created, result,
                   branch, attempt, reports, head_info, gen, output_path,
                   reconciled, recorded, retries, abortAt>>

\* db_data of _process_ip / _process_ul: the fields add_counterparty reads
\* and the status label
DbData ==
    IF branch = "ip"
    THEN [org_name |-> IpFullName(head_info[2]), inn |-> rows[i].inn,
          kpp |-> << >>, status_date |-> NowStamp, status |-> STATUS_SENT]
    ELSE [org_name |-> rows[i].org_name, inn |-> rows[i].inn,
          kpp |-> rows[i].kpp, status_date |-> NowStamp,
          status |-> STATUS_SENT]

\* self.db_manager.add_counterparty(db_data, company), then return True;
\* an sqlite error or the ValueError is re-raised and leaves the entry point
AddCounterparty ==
    /\ decision' = None
    /\ pc = "dbwrite"
    /\ calls' = [calls EXCEPT !["dbwrite"] = @ + 1]
    /\ \E ok \in BOOLEAN :
         /\ ok => ~ AddRaisesEmptyInn(DbData)
         /\ IF ok
            THEN /\ registry' = Stored(company, DbData)
                 /\ recorded' = recorded \cup {i}
                 /\ ReturnFromRecord(TRUE)
            ELSE /\ registry' = registry
                 /\ recorded' = recorded
                 /\ Goto("raised")
    /\ UNCHANGED <<envVars, runVars, i, processed, created, result, branch,
                   attempt, reports, head_info, gen, output_path, reconciled,
                   retries, abortAt, failedOpen>>

\* a variant for C11: the skip branch assigns nothing
SkipFallbackUnset(head) == NoGen

\* position_gen, fio_gen after skip of a convert_to_genitive failure
\* (lines 288-289)
SkipFallback(head) == <<Lower(head[1]), head[2]>>

\* a variant for C13: skip of a failed lookup fails the record
LookupSkipResultFalse == FALSE

\* what _process_ip / _process_ul return after skip of a failed lookup
\* (lines 166-168, 255-257)
LookupSkipResult == TRUE

\* a variant for C12: skip of a failed transmission fails the record
SendSkipResultFalse == FALSE

\* what _send_to_diadoc returns after skip (lines 133-135); the caller
\* returns False when it is False (lines 205-206, 321-322)
SendSkipResult == TRUE

\* the sink's decision d comes back from self.error_callback(...), and the
\* if/elif chain after the call runs
ErrorCallback ==
    /\ pc = "arbitrate"
    /\ \E d \in Decisions :
         /\ d = "retry" => retries < MaxRetryDecisions
         /\ decision' = d
         /\ retries' = IF d = "retry" THEN retries + 1 ELSE retries
         /\ abortAt' = IF d = "abort" THEN i ELSE abortAt
         /\ CASE d = "abort" ->
                   /\ ReturnFromRecord(FALSE)
                   /\ UNCHANGED <<branch, attempt, reports, head_info, gen,
                                  output_path, calls, failedOpen>>
              [] d = "retry" /\ stage = "send" ->
                   \* return self._send_to_diadoc(...)
                   /\ Goto("send")
                   /\ failedOpen' = {}
                   /\ UNCHANGED <<branch, attempt, reports, head_info, gen,
                                  output_path, calls>>
              [] d = "retry" /\ stage # "send" ->
                   \* return self._process_ip / _process_ul(counterparty, company)
                   /\ EnterRecord(branch, calls)
                   /\ succeeded' = succeeded
              [] d = "skip" /\ stage = "lookup" ->
                   /\ ReturnFromRecord(LookupSkipResult)
                   /\ UNCHANGED <<branch, attempt, reports, head_info, gen,
                                  output_path, calls, failedOpen>>
              [] d = "skip" /\ stage = "normalize" ->
                   /\ gen' = SkipFallback(head_info)
                   /\ Goto("fill")
                   /\ UNCHANGED <<branch, attempt, reports, head_info,
                                  output_path, calls, failedOpen>>
              [] d = "skip" /\ stage = "fill" ->
                   /\ ReturnFromRecord(FALSE)
                   /\ UNCHANGED <<branch, attempt, reports, head_info, gen,
                                  output_path, calls, failedOpen>>
              [] d = "skip" /\ stage = "send" ->
                   /\ IF SendSkipResult
                      THEN Goto("dbwrite")
                      ELSE ReturnFromRecord(FALSE)
                   /\ UNCHANGED <<branch, attempt, reports, head_info, gen,
                                  output_path, calls, failedOpen>>
              [] d = "other" /\ stage = "normalize" ->
                   \* no branch assigns position_gen: they stay None
                   /\ Goto("fill")
                   /\ UNCHANGED <<branch, attempt, reports, head_info, gen,
                                  output_path, calls, failedOpen>>
              [] d = "other" /\ stage # "normalize" ->
                   /\ ReturnFromRecord(FALSE)
                   /\ UNCHANGED <<branch, attempt, reports, head_info, gen,
                                  output_path, calls, failedOpen>>
    /\ UNCHANGED <<registry, envVars, runVars, i, processed, created, result,
                   reconciled, recorded>>

(***************************************************************************)
(* Entry points.                                                           *)
(***************************************************************************)
CP == "process_counterparties"

BP == "process_by_period"

\* a variant for C4: the check against the company's table is left out
get_new_counterparties_unfiltered(df, table) ==
    SelectSeq(CleanRows(df), LAMBDA row : row.inn # << >>)

\* get_new_counterparties without a period: the cleaned rows whose tax ID
\* is not empty and not in the company's table
get_new_counterparties(df, table) ==
    SelectSeq(CleanRows(df),
              LAMBDA row : row.inn # << >> /\ ~ check_inn_exists(table, row.inn))

\* a row of df is handed to the per-record state machine by the period loop
InPeriod(row, from, to) ==
    LET d == parse_date(row.status_date) IN
    d # NoDate /\ StrpDate(from) <= d /\ d <= StrpDate(to)

\* the run that ended returned, and recorded every row it had to process
RunRecorded ==
    /\ pc = "returned"
    /\ loaded
    /\ \A k \in 1..Len(rows) :
         (entry = CP \/ InPeriod(rows[k], date_from, date_to))
            => k \in recorded

\* the call of entry point e for company c
BeginRun(e, c) ==
    /\ pc = "idle"
    /\ decision' = None
    /\ entry' = e
    /\ company' = c
    /\ regAtStart' = Inns(Table(c))
    /\ UNCHANGED <<registry, envVars, i, processed, created, recVars, ret,
                   calls, reconciled, succeeded, recorded, retries, abortAt,
                   failedOpen>>

\* process_counterparties up to the loop (lines 354-373); when
\* get_new_counterparties raises, (0, 0) is returned
StartCounterparties ==
    \E c \in Companies, ok \in BOOLEAN :
      /\ BeginRun(CP, c)
      /\ UNCHANGED <<date_from, date_to, columnsAttr>>
      /\ loaded' = ok
      /\ rows' = IF ok THEN get_new_counterparties(csv, Table(c))
                ELSE << >>
      /\ IF Len(rows') = 0
         THEN pc' = "returned" /\ result' = <<0, 0>>
         ELSE pc' = "loop" /\ result' = << >>

\* the branch process_counterparties takes for a tax ID (lines 381-386)
CounterpartiesBranch(inn) == IF Len(inn) = 12 THEN "ip" ELSE "ul"

\* head of `for i, counterparty in enumerate(new_counterparties, 1)` and the
\* choice of the branch by len(inn) (lines 374-386); after the loop, the
\* return
CounterpartiesLoop ==
    /\ decision' = None
    /\ pc = "loop"
    /\ entry = CP
    /\ IF i < Len(rows)
       THEN /\ i' = i + 1
            /\ EnterRecord(CounterpartiesBranch(rows[i + 1].inn), NoCalls)
            /\ result' = result
       ELSE /\ pc' = "returned"
            /\ result' = <<processed, Len(rows)>>
            /\ UNCHANGED <<i, recVars, calls, failedOpen, ret>>
    /\ UNCHANGED <<registry, envVars, runVars, processed, created,
                   reconciled, succeeded, recorded, retries, abortAt>>

\* a variant for C19: every record is counted
CountAlways(n, success) == n + 1

\* `if success: processed += 1` (lines 388-389), `if ok: created += 1`
\* (lines 447-448)
CountIfSuccess(n, success) == IF success THEN n + 1 ELSE n

\* a variant for C1: the loop without its break
CounterpartiesContinuesAlways(success) == TRUE

\* `if success: processed += 1 else: break` (lines 388-392): TRUE when the
\* loop goes on after a record that returned success
CounterpartiesContinues(success) == success

\* the code after a record returned, and after a break the return
CounterpartiesRecordDone ==
    /\ decision' = None
    /\ pc = "recdone"
    /\ entry = CP
    /\ processed' = CountIfSuccess(processed, ret)
    /\ IF CounterpartiesContinues(ret)
       THEN pc' = "loop" /\ result' = result
       ELSE pc' = "returned" /\ result' = <<processed', Len(rows)>>
    /\ UNCHANGED <<registry, envVars, runVars, i, created, recVars, ret,
                   calls, reconciled, succeeded, recorded, retries, abortAt,
                   failedOpen>>

\* process_by_period up to the reconciliation loop (lines 404-413):
\* _load_csv may raise, and the read of self.db_manager.columns raises
\* AttributeError on an instance without that attribute
StartByPeriod ==
    \E c \in Companies, p \in Periods, ok \in BOOLEAN, has \in BOOLEAN :
      /\ BeginRun(BP, c)
      /\ date_from' = p[1]
      /\ date_to' = p[2]
      /\ result' = << >>
      /\ loaded' = ok
      /\ ~ ok => ~ has
      /\ columnsAttr' = has
      /\ IF has
         THEN pc' = "reconcile" /\ rows' = CleanRows(csv)
         ELSE pc' = "raised" /\ rows' = << >>

\* one iteration of the reconciliation loop (lines 416-419)
ReconcileRow ==
    /\ decision' = None
    /\ pc = "reconcile"
    /\ i < Len(rows)
    /\ i' = i + 1
    /\ LET row == rows[i + 1] IN
       IF row.inn # << >> /\ ~ check_inn_exists(Table(company), row.inn)
       THEN \E ok \in BOOLEAN :
              /\ ok => ~ AddRaisesEmptyInn(row)
              /\ IF ok
                 THEN /\ registry' = Stored(company, row)
                      /\ reconciled' = reconciled \cup {i + 1}
                      /\ pc' = pc
                 ELSE /\ registry' = registry
                      /\ reconciled' = reconciled
                      /\ pc' = "raised"
       ELSE UNCHANGED <<registry, reconciled, pc>>
    /\ UNCHANGED <<envVars, runVars, processed, created, result, recVars, ret,
                   calls, succeeded, recorded, retries, abortAt, failedOpen>>

\* after the reconciliation loop: d_from, d_to are parsed (lines 431-434);
\* strptime raises ValueError on a bound that is not dd.mm.yyyy
ReconcileDone ==
    /\ decision' = None
    /\ pc = "reconcile"
    /\ i = Len(rows)
    /\ IF StrpDate(date_from) = NoDate \/ StrpDate(date_to) = NoDate
       THEN pc' = "raised" /\ i' = i
       ELSE pc' = "loop" /\ i' = 0
    /\ UNCHANGED <<registry, envVars, runVars, processed, created, result,
                   recVars, ret, calls, reconciled, succeeded, recorded,
                   retries, abortAt, failedOpen>>

\* the branch process_by_period takes for a tax ID (lines 441-446), "none"
\* for ok = False
PeriodBranch(inn) ==
    IF Len(inn) = 12 THEN "ip" ELSE IF Len(inn) = 10 THEN "ul" ELSE "none"

\* head of the period loop and the choice of the branch (lines 435-446);
\* after the loop, return created
PeriodLoop ==
    /\ decision' = None
    /\ pc = "loop"
    /\ entry = BP
    /\ IF i < Len(rows)
       THEN /\ i' = i + 1
            /\ result' = result
            /\ LET row == rows[i + 1] IN
               IF InPeriod(row, date_from, date_to)
                  /\ PeriodBranch(row.inn) # "none"
               THEN EnterRecord(PeriodBranch(row.inn), NoCalls)
               ELSE \* the row is not in the period, or ok = False
                    /\ calls' = NoCalls
                    /\ UNCHANGED <<pc, recVars, failedOpen, ret>>
       ELSE /\ pc' = "returned"
            /\ result' = <<created>>
            /\ UNCHANGED <<i, recVars, calls, failedOpen, ret>>
    /\ UNCHANGED <<registry, envVars, runVars, processed, created,
                   reconciled, succeeded, recorded, retries, abortAt>>

\* `if ok: created += 1` (lines 447-448); the loop goes on whatever the
\* record returned
PeriodRecordDone ==
    /\ decision' = None
    /\ pc = "recdone"
    /\ entry = BP
    /\ created' = CountIfSuccess(created, ret)
    /\ pc' = "loop"
    /\ result' = result
    /\ UNCHANGED <<registry, envVars, runVars, i, processed, recVars, ret,
                   calls, reconciled, succeeded, recorded, retries, abortAt,
                   failedOpen>>

Next ==
    \/ StartCounterparties
    \/ CounterpartiesLoop
    \/ CounterpartiesRecordDone
    \/ StartByPeriod
    \/ ReconcileRow
    \/ ReconcileDone
    \/ PeriodLoop
    \/ PeriodRecordDone
    \/ GetHeadAttempt
    \/ ConvertToGenitive
    \/ FillTemplate
    \/ SendDocument
    \/ AddCounterparty
    \/ ErrorCallback

Spec == Init /\ [][Next]_vars

(***************************************************************************)
(* The window: start_processing, process_thread and handle_error, the      *)
(* error callback the window installs.  The processor is followed here     *)
(* only by what it does to the window: it calls handle_error some number   *)
(* of times, then returns or raises.                                       *)
(***************************************************************************)
orchVars == <<csv, registry, error_callback, columnsAttr, entry, company,
              date_from, date_to, loaded, pc, rows, i, processed, created, result,
              branch, attempt, reports, head_info, gen, output_path, stage,
              ret, calls, reconciled, succeeded, recorded, retries, abortAt,
              failedOpen, decision, regAtStart, aloneVars>>

\* the buttons of the dialog: set_action("abort" / "retry" / "skip")
Buttons == {"abort", "retry", "skip"}

\* a variant for C38: start_processing without its test of self.processing
StartProcessingUnguarded ==
    /\ dialog # "open"
    /\ \E file \in BOOLEAN :
         IF ~ file
         THEN UNCHANGED <<processing, thread, starts>>
         ELSE /\ starts < MaxStarts
              /\ processing' = TRUE
              /\ thread' = "running"
              /\ starts' = starts + 1
    /\ UNCHANGED <<orchVars, action, dialog, pending, tick, chosen, requests,
                   answers>>

\* start_processing: a warning while self.processing, nothing without a
\* file chosen, else self.processing = True and the thread is started
StartProcessing ==
    /\ dialog # "open"
    /\ \E file \in BOOLEAN :
         IF processing \/ ~ file
         THEN UNCHANGED <<processing, thread, starts>>
         ELSE /\ starts < MaxStarts
              /\ processing' = TRUE
              /\ thread' = "running"
              /\ starts' = starts + 1
    /\ UNCHANGED <<orchVars, action, dialog, pending, tick, chosen, requests,
                   answers>>

\* handle_error up to its loop: result = {"action": "abort"} and
\* self.root.after(0, show_dialog)
HandleErrorCalled ==
    /\ thread = "running"
    /\ requests < MaxRequests
    /\ requests' = requests + 1
    /\ action' = "abort"
    /\ dialog' = "scheduled"
    /\ chosen' = None
    /\ thread' = "waiting"
    /\ UNCHANGED <<orchVars, processing, pending, tick, answers, starts>>

\* show_dialog runs: the Toplevel is on the screen, in wait_window
ShowDialog ==
    /\ dialog = "scheduled"
    /\ dialog' = "open"
    /\ UNCHANGED <<orchVars, processing, thread, action, pending, tick,
                   chosen, requests, answers, starts>>

\* set_action(a): a button of the dialog is pressed
SetAction ==
    /\ dialog = "open"
    /\ \E a \in Buttons :
         /\ action' = a
         /\ chosen' = a
    /\ dialog' = "destroyed"
    /\ UNCHANGED <<orchVars, processing, thread, pending, tick, requests,
                   answers, starts>>

\* the dialog is closed by its window: destroyed with no button pressed
CloseDialog ==
    /\ dialog = "open"
    /\ dialog' = "destroyed"
    /\ UNCHANGED <<orchVars, processing, thread, action, pending, tick,
                   chosen, requests, answers, starts>>

\* a variant for C30: the loop is left at its first test
WaitNever(a, busy) == FALSE

\* `while result["action"] == "abort" and self.processing`: TRUE when the
\* loop of handle_error goes round again
WaitGoesOn(a, busy) == a = "abort" /\ busy

\* one test of the loop of handle_error: another pass (root.update() and
\* the sleep), or return result["action"]
WaitLoop ==
    /\ thread = "waiting"
    /\ IF WaitGoesOn(action, processing)
       THEN /\ tick' = ~ tick
            /\ UNCHANGED <<thread, answers>>
       ELSE /\ thread' = "running"
            /\ answers' = Append(answers, <<chosen, action>>)
            /\ tick' = tick
    /\ UNCHANGED <<orchVars, processing, action, dialog, pending, chosen,
                   requests, starts>>

\* process_thread after process_by_period returned or raised:
\* root.after(0, processing_complete) or root.after(0, processing_error)
ProcessThreadEnds ==
    /\ thread = "running"
    /\ thread' = "done"
    /\ \E p \in {"processing_complete", "processing_error"} : pending' = p
    /\ UNCHANGED <<orchVars, processing, action, dialog, tick, chosen,
                   requests, answers, starts>>

\* processing_complete / processing_error: self.processing = False
ProcessingEnded ==
    /\ pending # "none"
    /\ pending' = "none"
    /\ processing' = FALSE
    /\ thread' = "none"
    /\ UNCHANGED <<orchVars, action, dialog, tick, chosen, requests, answers,
                   starts>>

\* the window as AgreementGeneratorGUI.__init__ leaves it, handle_error
\* installed in the processor
GuiInit ==
    /\ Init
    /\ csv = Listing(1, 1)
    /\ registry = [t \in Tables |-> {}]
    /\ error_callback

GuiNext ==
    \/ StartProcessing
    \/ HandleErrorCalled
    \/ ShowDialog
    \/ SetAction
    \/ CloseDialog
    \/ WaitLoop
    \/ ProcessThreadEnds
    \/ ProcessingEnded

\* the Tk main loop runs what root.after scheduled, and the worker thread
\* keeps running; no button has to be pressed
GuiSpec ==
    /\ GuiInit
    /\ [][GuiNext]_vars
    /\ WF_vars(ShowDialog)
    /\ WF_vars(WaitLoop)
    /\ WF_vars(ProcessingEnded)

\* C3 (as stated): every call of handle_error returns at most one decision,
\* the one whose button was pressed, and once a button has been pressed the
\* call returns that decision
C3_EveryChoiceReturned ==
    /\ [](/\ Len(answers) <= requests
          /\ \A k \in 1..Len(answers) : answers[k][1] = answers[k][2])
    /\ \A a \in Buttons :
         (thread = "waiting" /\ chosen = a)
            ~> (/\ requests > 0
                /\ Len(answers) = requests
                /\ answers[requests] = <<a, a>>)

(***************************************************************************)
(* Properties of the batch entry points and of the per-record machine.     *)
(***************************************************************************)
\* the worker is between the end of a record and the end of the run
AtRecordEnd == pc \in {"recdone", "returned"}

\* C1: in process_counterparties, once the sink answered abort while
\* candidate k was in hand, the worker never leaves candidate k for a later
\* one nor runs another stage, and the success count returned is the number
\* of candidates before k that ended in success
C1_AbortHaltsCounterparties ==
    (entry = CP /\ abortAt # 0) =>
        /\ i = abortAt
        /\ AtRecordEnd
        /\ abortAt \notin succeeded
        /\ pc = "returned" =>
              result = <<Cardinality({k \in succeeded : k < abortAt}),
                         Len(rows)>>

\* an abort at the second of three candidates, after one success
C1_Witness ==
    /\ entry = CP
    /\ abortAt = 2
    /\ Len(rows) = 3
    /\ pc = "returned"
    /\ result = <<1, 3>>

C6_Scenario ==
    /\ entry = BP
    /\ Len(csv) = 1
    /\ Len(_fix_inn_format(csv[1].inn)) = 10
    /\ _fix_inn_format(csv[1].inn) \notin regAtStart
    /\ StrpDate(date_from) # NoDate
    /\ StrpDate(date_to) # NoDate
    /\ InPeriod(csv[1], date_from, date_to)

\* no call of a collaborator failed during the run, and the resolver
\* reported an organization
C6_AllSucceeded ==
    /\ loaded
    /\ columnsAttr =>
          /\ pc = "returned"
          /\ attempt = 0
          /\ failedOpen = {}
          /\ calls["arbitration"] = 0
          /\ head_info # NoHeadInfo
          /\ head_info[1] # SOLE
    /\ ~ columnsAttr => pc = "raised"

\* upserts of the company's table for the only row of the listing
C6_Upserts == calls["dbwrite"] + Cardinality(reconciled)

\* C6 (as stated): for such a listing, with every collaborator succeeding,
\* process_by_period ends with exactly one document, one transmission and
\* one upsert, and the row stored carries the status "sent through Diadoc"
C6_OneRowOneOfEach ==
    (C6_Scenario /\ C6_AllSucceeded) =>
        /\ calls["document"] = 1
        /\ calls["send"] = 1
        /\ C6_Upserts = 1
        /\ \E r \in Table(company) :
              /\ r.inn = _fix_inn_format(csv[1].inn)
              /\ "status" \in DOMAIN r
              /\ r.status = STATUS_SENT

\* C7 (as stated): in both entry points a tax ID of length 12 takes the IP
\* path, one of length 10 the UL path, and one of any other length causes no
\* collaborator call and is not counted as a success
C7_ClassifiedByLength ==
    (pc \in {"lookup", "normalize", "fill", "send", "dbwrite", "arbitrate",
             "recdone"}) =>
        LET n == Len(rows[i].inn) IN
        /\ n = 12 => branch = "ip"
        /\ n = 10 => branch = "ul"
        /\ n \notin {10, 12} => (calls = NoCalls /\ i \notin succeeded)

\* C8: one lookup stage calls the resolver at most 3 times, a success ends
\* it, and the sink is asked about a lookup only after exactly 3 failures
\* in a row, reported as attempts 1, 2 and 3
C8_LookupThreeAttempts ==
    /\ attempt <= 3
    /\ reports = [k \in 1..attempt |-> k]
    /\ head_info # NoHeadInfo => (attempt <= 2 /\ pc # "lookup")
    /\ (pc = "arbitrate" /\ stage = "lookup") =>
          (attempt = 3 /\ head_info = NoHeadInfo)
    /\ pc = "lookup" => attempt <= 2

\* the sink is asked after the third failed attempt
C8_Witness ==
    /\ pc = "arbitrate"
    /\ stage = "lookup"
    /\ reports = <<1, 2, 3>>
    /\ calls["arbitration"] = 1

\* the collaborators whose failure is handed to the sink at once
Escalated == {"normalize", "fill", "send"}

\* in this step collaborator c was called and failed
FailsNow(c) == calls'[c] = calls[c] + 1 /\ c \in failedOpen'

\* C9 (as stated): a failed call of the normalizer, the filler or the
\* transmission is followed at once by exactly one arbitration request, and
\* the failed collaborator is not called again for the record unless the
\* decision was retry
C9_FailureEscalated ==
    [][ /\ \A c \in Escalated :
             FailsNow(c) =>
                /\ pc' = "arbitrate"
                /\ calls'["arbitration"] = calls["arbitration"] + 1
        /\ \A c \in Escalated :
             calls'[c] = calls[c] + 1 => c \notin failedOpen
      ]_vars

\* C9 (amended): the same, where an error callback is installed; without
\* one the failure raises no request, and in either case the failed
\* collaborator is not called again before a retry decision
C9_FailureEscalatedWithSink ==
    [][ /\ \A c \in Escalated :
             FailsNow(c) =>
                IF error_callback
                THEN /\ pc' = "arbitrate"
                     /\ stage' = c
                     /\ calls'["arbitration"] = calls["arbitration"] + 1
                ELSE /\ pc' # "arbitrate"
                     /\ calls'["arbitration"] = calls["arbitration"]
        /\ \A c \in Escalated :
             calls'[c] = calls[c] + 1 => c \notin failedOpen
        /\ pc = "arbitrate" =>
             /\ calls'["arbitration"] = calls["arbitration"]
             /\ \A c \in Escalated : calls'[c] = calls[c]
      ]_vars

\* a failed transmission is before the sink, asked once
C9_Witness ==
    /\ pc = "arbitrate"
    /\ stage = "send"
    /\ "send" \in failedOpen
    /\ calls["send"] = 1
    /\ calls["arbitration"] = 1

\* C10 (as stated): a retry decision re-runs only the stage that failed:
\* the worker is at that stage again, and no stage that was completed
\* before it is called again
C10_RetryOnlyFailedStage ==
    [][ (pc = "arbitrate" /\ retries' = retries + 1) =>
           /\ pc' = stage
           /\ \A c \in Counted \ {stage} : calls'[c] = calls[c]
      ]_vars

\* C11 (as stated): after skip of a normalizer failure the genitive fields
\* are the title and the full name as resolved, and the document fill is
\* the next stage
C11_SkipUsesResolvedValues ==
    [][ (decision' = "skip" /\ stage = "normalize") =>
           /\ pc' = "fill"
           /\ gen' = head_info
      ]_vars

\* C11 (amended): after skip of a normalizer failure the genitive fields
\* are the lower-cased title and the full name as resolved, no collaborator
\* is called by the decision, and the document fill is the next stage
C11_SkipUsesLowerCasedTitle ==
    [][ (decision' = "skip" /\ stage = "normalize") =>
           /\ pc' = "fill"
           /\ gen' = <<Lower(head_info[1]), head_info[2]>>
           /\ head_info' = head_info
           /\ calls' = calls
           /\ registry' = registry
      ]_vars

\* the normalizer failed, the sink answered skip, and the fill is next with
\* the fallback values
C11_Witness ==
    /\ decision = "skip"
    /\ stage = "normalize"
    /\ pc = "fill"
    /\ head_info = <<"Direktor", "Petrov Petr Petrovich">>
    /\ gen = <<"direktor", "Petrov Petr Petrovich">>

\* the transmission of the row in hand failed and was skipped: the worker
\* is at the registry write, or past it
SendSkipped ==
    /\ "send" \in failedOpen
    /\ \/ pc = "dbwrite"
       \/ pc = "recdone" /\ calls["dbwrite"] > 0

C13_LookupSkipIsSuccess ==
    [][ /\ (decision' = "skip" /\ stage = "lookup") =>
              /\ pc' = "recdone"
              /\ ret'
              /\ i \in succeeded'
              /\ calls' = calls
              /\ calls["document"] = 0
              /\ calls["send"] = 0
              /\ calls["dbwrite"] = 0
              /\ i \notin recorded'
              /\ registry' = registry
        /\ (decision = "skip" /\ stage = "lookup") =>
              /\ pc' = "loop"
              /\ entry = CP => processed' = processed + 1
              /\ entry = BP => created' = created + 1
              /\ registry' = registry
      ]_vars

\* a lookup was skipped and the record counted, with nothing created
C13_Witness ==
    /\ entry = CP
    /\ pc = "returned"
    /\ Len(rows) = 1
    /\ result = <<1, 1>>
    /\ attempt = 3
    /\ calls["arbitration"] = 1
    /\ calls["document"] = 0
    /\ recorded = {}

\* in this step the resolver answered, with a kind that does not match the
\* branch of the record
MismatchResolved ==
    /\ pc = "lookup"
    /\ head_info' # NoHeadInfo
    /\ \/ branch = "ip" /\ head_info'[1] # "IP"
       \/ branch = "ul" /\ head_info'[1] = "IP"

\* C14: when the kind resolved does not match the branch, the record
\* returns failure at once: the resolver is not called again, and no
\* document, transmission or registry write is made for it
C14_MismatchFailsRecord ==
    [][ MismatchResolved =>
           /\ pc' = "recdone"
           /\ ~ ret'
           /\ i \notin succeeded'
           /\ i \notin recorded'
           /\ calls' = calls
           /\ calls["document"] = 0
           /\ calls["send"] = 0
           /\ calls["dbwrite"] = 0
           /\ registry' = registry
      ]_vars

\* an organization row for which the resolver reported a sole proprietor
C14_Witness ==
    /\ pc = "recdone"
    /\ branch = "ul"
    /\ head_info = <<"IP", "Ivanov Ivan Ivanovich">>
    /\ ~ ret
    /\ calls["lookup"] = 1
    /\ calls["document"] = 0

\* C15 (as stated): a kind mismatch raises exactly one arbitration request
\* when a sink is installed
C15_MismatchOffered ==
    [][ (MismatchResolved /\ error_callback) =>
           /\ pc' = "arbitrate"
           /\ calls'["arbitration"] = calls["arbitration"] + 1
      ]_vars

\* C16 (as stated): a failure of the registry write of a record never ends
\* the entry point with an exception
C16_RegistryFailureArbitrated ==
    ~ (pc = "raised" /\ calls["dbwrite"] > 0)

\* in this step collaborator c was called for the row in hand
CalledNow(c) == calls'[c] = calls[c] + 1

\* C17: for the row in hand the normalizer and the filler are called only
\* after the lookup succeeded, the filler of an organization only after the
\* normalizer was called, the transmission only after a document was
\* created, and the worker comes to the registry write only from a
\* transmission that succeeded or from a skip of a failed one; the registry
\* is written by no other stage
C17_StageOrder ==
    [][ /\ CalledNow("normalize") =>
              (calls["lookup"] > 0 /\ head_info # NoHeadInfo)
        /\ CalledNow("fill") =>
              /\ head_info # NoHeadInfo
              /\ branch = "ul" => calls["normalize"] > 0
        /\ CalledNow("send") =>
              (calls["document"] > 0 /\ output_path # NoPath)
        /\ (pc' = "dbwrite" /\ pc # "dbwrite") =>
              \/ pc = "send" /\ CalledNow("send") /\ "send" \notin failedOpen'
              \/ pc = "arbitrate" /\ stage = "send" /\ decision' = "skip"
        /\ CalledNow("dbwrite") => (pc = "dbwrite" /\ calls["send"] > 0)
        /\ (registry' # registry /\ pc # "reconcile") => CalledNow("dbwrite")
      ]_vars

\* an organization went through every stage once, in order
C17_Witness ==
    /\ pc = "recdone"
    /\ branch = "ul"
    /\ ret
    /\ calls = [c \in Counted |-> IF c = "arbitration" THEN 0 ELSE 1]

C19_ReturnsSuccessesAndTotal ==
    (entry = CP /\ pc = "returned") =>
        /\ Len(result) = 2
        /\ result[2] = Len(rows)
        /\ result[1] = Cardinality(succeeded)
        /\ 0 <= result[1]
        /\ result[1] <= result[2]
        /\ recorded \subseteq succeeded
        /\ (result[1] = result[2]) <=> (\A k \in 1..i : k \in succeeded)

\* three candidates, the third failed: (2, 3)
C19_Witness ==
    /\ entry = CP
    /\ pc = "returned"
    /\ result = <<2, 3>>
    /\ i = 3
    /\ recorded = {1, 2}

AllReconciled ==
    \A k \in 1..Len(csv) :
        _fix_inn_format(csv[k].inn) # << >> =>
            check_inn_exists(Table(company), csv[k].inn)

\* C21 (as stated): process_by_period, once it has read the listing,
\* starts no record before the reconciliation loop has ended, and unless a
\* registry write or the parsing of a period bound raised, it leaves the
\* reconciliation loop with every row of the listing whose cleaned tax ID is
\* not empty in the company's table, whatever the row's date
C21_ReconciledBeforeProcessing ==
    (entry = BP /\ loaded) =>
        /\ pc = "reconcile" => (calls = NoCalls /\ succeeded = {})
        /\ (pc # "reconcile" /\ ~ (columnsAttr /\ pc = "raised")) =>
              AllReconciled

\* C22 (as stated): the period loop hands the next row to _process_ip or
\* _process_ul exactly when the row's date parses and lies between the two
\* bounds, both included; and a call that read a listing holding such a row
\* does not end before the loop
C22_SelectedByDate ==
    /\ [][ (pc = "loop" /\ entry = BP /\ i < Len(rows)) =>
              (pc' = "lookup" <=> InPeriod(rows[i + 1], date_from, date_to))
         ]_vars
    /\ []((entry = BP /\ loaded /\ pc = "raised" /\ ~ columnsAttr) =>
              \A k \in 1..Len(csv) :
                  ~ InPeriod(CleanRow(csv[k]), date_from, date_to))

(***************************************************************************)
(* The registry taken alone: the methods of DatabaseManager that read or   *)
(* write a table, called in any order for any company name.                *)
(***************************************************************************)
\* what the batch and the window hold, left alone by the registry methods
batchVars == <<csv, error_callback, columnsAttr, entry, company, date_from,
               date_to, loaded, pc, rows, i, processed, created, result,
               branch, attempt, reports, head_info, gen, output_path, stage,
               ret, calls, reconciled, succeeded, recorded, retries, abortAt,
               failedOpen, decision, regAtStart>>

\* a company name _get_table_name does not know
OtherCompany == "Drugaya"

\* the company names a caller passes
CompanyNames == Companies \cup {OtherCompany}

\* a row whose tax ID is blank
BlankInnRow == Row("OOO Pusto", <<" ">>, << >>, DateInRange)

\* db_data of _process_ul for OOO Alfa
AlfaDbData == Row("OOO Alfa", InnAlfa, KppAlfa, NowStamp)

\* a second name under the tax ID of OOO Alfa
AlfaRenamed == Row("OOO Alfa-M", InnAlfa, << >>, DateIso)

\* the dicts add_counterparty is called with: rows of a listing as
\* reconciliation passes them, a row as read from the file, db_data of a
\* processed record, a row whose tax ID is blank
DataPool ==
    {CleanRow(RowPool[1]), CleanRow(RowPool[2]), RowPool[1], AlfaDbData,
     BlankInnRow}

\* the listings create_database_from_csv reads: two rows of the pool, and
\* a listing with a blank tax ID and a tax ID that occurs twice
CsvPool == {Listing(1, 2), <<BlankInnRow, AlfaRenamed, RowPool[1]>>}

\* a variant for C23: the insert without the UNIQUE constraint on inn
InsertUnconstrained(table, row) == table \cup {row}

\* INSERT INTO table (org_name, inn, kpp) inside try / except IntegrityError:
\* continue (lines 166-174): a row whose inn is in the table is left out
InsertIgnore(table, row) ==
    IF row.inn \in Inns(table) THEN table ELSE table \cup {row}

\* the row create_database_from_csv stores: no status date
CsvStoredRow(row) ==
    [org_name |-> row.org_name, inn |-> row.inn, kpp |-> row.kpp,
     status_date |-> << >>]

RECURSIVE InsertRows(_, _)
\* the loop `for _, row in df.iterrows()` of create_database_from_csv
InsertRows(table, df) ==
    IF df = << >> THEN table
    ELSE InsertRows(InsertIgnore(table, CsvStoredRow(Head(df))), Tail(df))

\* a variant for C24: the import starts from an emptied table
CsvImportedFresh(table, df) ==
    InsertRows({}, SelectSeq(CleanRows(df), LAMBDA row : Len(row.inn) > 0))

\* the table after create_database_from_csv read df: tax IDs and
\* registration codes are cleaned, rows with an empty tax ID dropped
CsvImported(table, df) ==
    InsertRows(table, SelectSeq(CleanRows(df), LAMBDA row : Len(row.inn) > 0))

\* a registry method was called for company name c and returned or raised
\* v; the batch and the window are not involved
RegistryCall(method, c, v) ==
    /\ op' = <<method, c, v>>
    /\ UNCHANGED <<batchVars, guiVars, conv, send, docs>>

\* create_database_from_csv(csv_path, company): raises for an unreadable
\* file, an unknown company or an sqlite error, the transaction rolled back
create_database_from_csv ==
    \E c \in CompanyNames, df \in CsvPool, ok \in BOOLEAN :
      /\ ok => _get_table_name(c) # None
      /\ registry' = IF ok
                     THEN [registry EXCEPT ![_get_table_name(c)] =
                              CsvImported(@, df)]
                     ELSE registry
      /\ RegistryCall("create_database_from_csv", c,
                      IF ok THEN "True" ELSE "raised")

\* add_counterparty(data, company): raises for an unknown company, an empty
\* cleaned tax ID or an sqlite error
add_counterparty ==
    \E c \in CompanyNames, data \in DataPool, ok \in BOOLEAN :
      /\ ok => (_get_table_name(c) # None /\ ~ AddRaisesEmptyInn(data))
      /\ registry' = IF ok THEN Stored(c, data) ELSE registry
      /\ RegistryCall("add_counterparty", c, IF ok THEN "True" ELSE "raised")

\* check_inn_exists(inn, company): raises for an unknown company or an
\* sqlite error
CheckInnExists ==
    \E c \in CompanyNames, data \in DataPool, ok \in BOOLEAN :
      /\ ok => _get_table_name(c) # None
      /\ registry' = registry
      /\ RegistryCall("check_inn_exists", c,
                      IF ~ ok THEN "raised"
                      ELSE IF check_inn_exists(Table(c), data.inn)
                           THEN "True" ELSE "False")

\* counterparties.db as _init_database creates it: two empty tables
RegistryInit ==
    /\ Init
    /\ csv = Listing(1, 1)
    /\ registry = [t \in Tables |-> {}]
    /\ ~ error_callback

RegistryNext ==
    \/ create_database_from_csv
    \/ add_counterparty
    \/ CheckInnExists

RegistrySpec == RegistryInit /\ [][RegistryNext]_vars

\* C23: whatever was called, a table holds at most one row per tax ID and no
\* row with an empty tax ID
C23_OneRowPerInn ==
    \A t \in Tables :
        /\ \A r1, r2 \in registry[t] : r1.inn = r2.inn => r1 = r2
        /\ \A r \in registry[t] : r.inn # << >>

\* a table was written by create_database_from_csv and by add_counterparty
\* for the same tax ID, and add_counterparty has just refused a blank one
C23_Witness ==
    /\ op = <<"add_counterparty", KADIS, "raised">>
    /\ \E r \in Table(KADIS) : r.inn = InnAlfa /\ r.status_date = NowStamp
    /\ \E r \in Table(KADIS) : r.inn = InnIvanov /\ r.status_date = << >>

\* C24: no call removes a tax ID from a table: the tax IDs of a table after
\* a step include those before it, so check_inn_exists for a company and a
\* tax ID never goes from true to false
C24_InnsOnlyGrow ==
    [][ /\ \A t \in Tables : Inns(registry[t]) \subseteq Inns(registry'[t])
        /\ \A c \in Companies, inn \in {InnAlfaDecimal, InnIvanov} :
              check_inn_exists(Table(c), inn) =>
                  check_inn_exists(Table(c), inn)'
      ]_vars

\* create_database_from_csv has just run on a table that held a row written
\* by add_counterparty, and the row is still there next to an imported one
C24_Witness ==
    /\ op = <<"create_database_from_csv", KADIS, "True">>
    /\ \E r \in Table(KADIS) : r.inn = InnAlfa /\ r.status_date = NowStamp
    /\ \E r \in Table(KADIS) : r.inn = InnIvanov /\ r.status_date = << >>

\* C25: a call made for one company leaves the table of the other company
\* as it was, and a call made for a name that is neither company raises and
\* leaves both tables as they were
C25_TablesIsolated ==
    [][ /\ \A t \in Tables :
              t # _get_table_name(op'[2]) => registry'[t] = registry[t]
        /\ op'[2] \notin Companies \cup {None} =>
              (op'[3] = "raised" /\ registry' = registry)
      ]_vars

\* both tables hold rows, different ones, and a call for an unknown name
\* has just raised
C25_Witness ==
    /\ op = <<"add_counterparty", OtherCompany, "raised">>
    /\ Table(KADIS) # {}
    /\ Table(URI) # {}
    /\ Table(KADIS) # Table(URI)

(***************************************************************************)
(* _fix_inn_format taken alone: it is given a text, then its own result,   *)
(* and add_counterparty stores what it returns.                            *)
(***************************************************************************)
\* the characters of the texts: digits, blanks, the marks of a decimal and
\* of scientific notation, a sign
InnChars == {"7", "0", " ", ".", ",", "E", "e", "-"}

RECURSIVE TextsOfLen(_)
TextsOfLen(n) ==
    IF n = 0 THEN {<< >>}
    ELSE {Append(s, c) : s \in TextsOfLen(n - 1), c \in InnChars}

\* every text of at most MaxInnLen characters
InnInputs == UNION {TextsOfLen(n) : n \in 0..MaxInnLen}

\* _fix_inn_format(inn) is called on a text
FixInnFormat ==
    \E inn \in InnInputs :
      /\ op = NoOp
      /\ op' = <<"_fix_inn_format", inn, _fix_inn_format(inn)>>
      /\ UNCHANGED <<registry, batchVars, guiVars, conv, send, docs>>

\* _fix_inn_format is called on what it returned: check_inn_exists and
\* add_counterparty clean again the tax IDs the loaders cleaned
FixInnFormatAgain ==
    /\ op[1] = "_fix_inn_format"
    /\ op' = <<"again", op[3], _fix_inn_format(op[3])>>
    /\ UNCHANGED <<registry, batchVars, guiVars, conv, send, docs>>

\* add_counterparty for a dict whose tax ID is the text, when it does not
\* raise
StoreCleaned ==
    /\ op[1] = "_fix_inn_format"
    /\ ~ AddRaisesEmptyInn(Row("OOO Alfa", op[2], << >>, << >>))
    /\ registry' = Stored(KADIS, Row("OOO Alfa", op[2], << >>, << >>))
    /\ op' = <<"add_counterparty", op[2], op[3]>>
    /\ UNCHANGED <<batchVars, guiVars, conv, send, docs>>

FixNext ==
    \/ FixInnFormat
    \/ FixInnFormatAgain
    \/ StoreCleaned

FixSpec == RegistryInit /\ [][FixNext]_vars

\* digits with ".0" at the end
DecimalForm(s) ==
    /\ Len(s) > 2
    /\ EndsWithDotZero(s)
    /\ AllDigits(SubSeq(s, 1, Len(s) - 2))

\* digits with blanks before or after them
PaddedForm(s) == Strip(s) # << >> /\ AllDigits(Strip(s))

\* a number written with an exponent, with a point or a comma
ScientificForm(s) == FloatParts(CommaToDot(Strip(s))).ok

\* C26 (as stated): _fix_inn_format returns digits only for a text in
\* scientific notation, a decimal with ".0" at the end or digits between
\* blanks; applied to its own result it returns that result; and every tax
\* ID stored in a table consists of digits only
C26_CleanupDigitOnlyIdempotent ==
    /\ (/\ op[1] = "_fix_inn_format"
        /\ DecimalForm(op[2]) \/ PaddedForm(op[2]) \/ ScientificForm(op[2]))
          => (op[3] # << >> /\ AllDigits(op[3]))
    /\ op[1] = "again" => op[3] = op[2]
    /\ \A t \in Tables : \A r \in registry[t] : AllDigits(r.inn)

(***************************************************************************)
(* OpenAIProcessor.convert_to_genitive taken alone.  Texts are sequences   *)
(* of characters: "D" and "N" stand for the title and the name given, "d"  *)
(* and "n" for their lower-case forms, "g" for any other word, "~" for a  *)
(* backtick.                                                               *)
(***************************************************************************)
\* max_retries of convert_to_genitive
convert_max_retries == 3

\* position, fio of the call
ConvPosition == <<"D">>

ConvFio == <<"N">>

ReplyChars == {"D", "N", "g", "|", " "}

RECURSIVE RepliesOfLen(_)
RepliesOfLen(n) ==
    IF n = 0 THEN {<< >>}
    ELSE {Append(s, c) : s \in RepliesOfLen(n - 1), c \in ReplyChars}

\* replies with a lower-case echo, a code fence, several lines, two pipes
LongReplies ==
    { <<"d", "|", "n">>,
      <<"~", "~", "~", "g", "|", "g", "~", "~", "~">>,
      <<"~", "~", "~", "D", "|", "N", "~", "~", "~">>,
      <<"g", "\n", " ", "g", "|", "g", "\n", "D", "|", "N">>,
      <<"g", "\n", "D", "|", "N">>,
      <<"g", "\n", "g">>,
      <<"g", "|", "g", "|", "g">>,
      <<"D", "|", "g", " ", "N">> }

\* js["choices"][0]["message"]["content"] of a reply with status 200
Replies == UNION {RepliesOfLen(n) : n \in 0..MaxReplyLen} \cup LongReplies

\* last_response = None
NoReply == <<None>>

\* no pair returned
NoValue == << << >>, << >> >>

\* str.lower()
LowerText(s) ==
    [k \in 1..Len(s) |->
        CASE s[k] = "D" -> "d" [] s[k] = "N" -> "n" [] OTHER -> s[k]]

\* the test of line 79: content starts and ends with three backticks
Fenced(s) ==
    /\ Len(s) >= 3
    /\ \A k \in 1..3 : s[k] = "~" /\ s[Len(s) + 1 - k] = "~"

RECURSIVE SplitLines(_)
\* content.split(newline)
SplitLines(s) ==
    LET n == FirstIndexIn(s, {"\n"}) IN
    IF n = 0 THEN <<s>>
    ELSE <<SubSeq(s, 1, n - 1)>> \o SplitLines(SubSeq(s, n + 1, Len(s)))

\* lines 83-88: of a reply of several lines, the first line with a pipe
FirstPipeLine(content) ==
    IF ~ Contains(content, "\n") THEN content
    ELSE LET lines == SplitLines(content)
             hits  == {k \in 1..Len(lines) : Contains(lines[k], "|")}
         IN IF hits = {} THEN content
            ELSE Strip(lines[CHOOSE k \in hits : \A j \in hits : k <= j])

\* lines 76-88: the reply stripped, without its code fence, reduced to one
\* line
CleanedReply(content) ==
    LET c == Strip(content) IN
    FirstPipeLine(IF Fenced(c) THEN Strip(SubSeq(c, 4, Len(c) - 3)) ELSE c)

\* content.split("|", 1), both parts stripped (lines 95-96)
ReplyParts(c) ==
    LET n == FirstIndexIn(c, {"|"}) IN
    <<Strip(SubSeq(c, 1, n - 1)), Strip(SubSeq(c, n + 1, Len(c)))>>

\* a variant for C27: the reply is not compared with the input
IsEchoNever(parts, position, fio) == FALSE

\* p1.lower() == position.lower() and p2.lower() == fio.lower() (line 102)
IsEcho(parts, position, fio) ==
    /\ LowerText(parts[1]) = LowerText(position)
    /\ LowerText(parts[2]) = LowerText(fio)

\* what the checks of lines 91-104 raise for a reply, "ok" when none does
ReplyVerdict(content, position, fio) ==
    LET c == CleanedReply(content) IN
    IF ~ Contains(c, "|") THEN "no_pipe"
    ELSE IF ReplyParts(c)[1] = << >> \/ ReplyParts(c)[2] = << >> THEN "empty"
    ELSE IF IsEcho(ReplyParts(c), position, fio) THEN "echo"
    ELSE "ok"

\* convert_to_genitive(position, fio) is called
ConvertCalled ==
    /\ conv = NoConv
    /\ conv' = [pc |-> "loop", position |-> ConvPosition, fio |-> ConvFio,
                attempt |-> 0, requests |-> 0, last_response |-> NoReply,
                last_err |-> None, value |-> NoValue]
    /\ UNCHANGED <<registry, batchVars, guiVars, op, send, docs>>

\* the except branch (lines 109-114) and, after the last attempt, the raise
\* of lines 117-121
AttemptFailed(c, err) ==
    [c EXCEPT !.attempt = @ + 1,
              !.last_err = err,
              !.pc = IF c.attempt + 1 < convert_max_retries
                     THEN "loop" ELSE "raised"]

\* one pass of `for attempt in range(max_retries)`: the request is posted;
\* it raises or is answered with a status other than 200 or with a body
\* that is not a chat completion, or it delivers a reply
ConvertAttempt ==
    /\ conv.pc = "loop"
    /\ LET posted == [conv EXCEPT !.requests = @ + 1] IN
       \/ conv' = AttemptFailed(posted, "request")
       \/ \E content \in Replies :
            LET got == [posted EXCEPT !.last_response = content]
                v   == ReplyVerdict(content, conv.position, conv.fio)
            IN conv' = IF v = "ok"
                       THEN [got EXCEPT
                               !.pc = "returned",
                               !.value = ReplyParts(CleanedReply(content))]
                       ELSE AttemptFailed(got, v)
    /\ UNCHANGED <<registry, batchVars, guiVars, op, send, docs>>

GenitiveNext ==
    \/ ConvertCalled
    \/ ConvertAttempt

GenitiveSpec == RegistryInit /\ [][GenitiveNext]_vars

\* C27: a call of convert_to_genitive posts at most 3 requests; it returns
\* with the first reply that has a pipe, text on both sides of it and is not
\* the input, so after as many requests as attempts failed plus one, and
\* the pair returned is never the pair given; a reply without a pipe, with
\* an empty side or echoing the input is an attempt failed; the call raises
\* only after 3 requests
C27_GenitiveThreeAttempts ==
    conv.pc # "idle" =>
        /\ conv.requests <= 3
        /\ conv.requests = conv.attempt + (IF conv.pc = "returned" THEN 1 ELSE 0)
        /\ conv.pc = "raised" <=> conv.attempt = 3
        /\ conv.pc = "returned" =>
              /\ Contains(conv.last_response, "|")
              /\ conv.value[1] # << >>
              /\ conv.value[2] # << >>
              /\ conv.value # <<conv.position, conv.fio>>
        /\ (conv.last_err \in {"no_pipe", "empty", "echo"}
                /\ conv.pc # "returned") =>
              LET c == CleanedReply(conv.last_response) IN
              \/ ~ Contains(c, "|")
              \/ << >> \in {ReplyParts(c)[1], ReplyParts(c)[2]}
              \/ LowerText(ReplyParts(c)[1]) = <<"d">>
                    /\ LowerText(ReplyParts(c)[2]) = <<"n">>

\* the call returned a pair with its third request, after a reply that
\* echoed the input and another failure
C27_Witness ==
    /\ conv.pc = "returned"
    /\ conv.requests = 3
    /\ conv.last_err = "echo"
    /\ conv.value = << <<"g">>, <<"g">> >>

(***************************************************************************)
(* DiadocClient.send_document taken alone: the requests it makes, in the   *)
(* order it makes them.                                                    *)
(***************************************************************************)
\* what GetOrganizationsByInnKpp answers: (status, number of Organizations,
\* number of Boxes of the first one)
LookupResponses ==
    {<<500, 0, 0>>, <<200, 0, 0>>} \cup
    {<<200, n, b>> : n \in {1, 2}, b \in {0, 1}}

\* no answer yet
NoResponse == <<0, 0, 0>>

\* get_box_id_by_inn_kpp raises (lines 95-104): the status is not 200, or
\* Organizations is missing or empty
LookupRaises(resp) == resp[1] # 200 \/ resp[2] = 0

\* org['Boxes'][0]['BoxIdGuid'] raises (lines 135, 139): no box
NoBox(resp) == resp[3] = 0

\* a variant for C28: the document file is not looked for
DocumentRaisesNever(exists, readable) == FALSE

\* `if not doc_path.exists(): raise FileNotFoundError` and the open and
\* read of the file (lines 142-147)
DocumentRaises(exists, readable) == ~ exists \/ ~ readable

\* send_document(from_inn, to_inn, document_path, ...) is called on a client
\* that holds a token or not
SendCalled ==
    \E token \in BOOLEAN, to_kpp \in BOOLEAN :
      /\ send = NoSend
      /\ send' = [pc |-> "from_lookup", token |-> token, to_kpp |-> to_kpp,
                  from_org |-> NoResponse, to_org |-> NoResponse,
                  file |-> "unchecked", log |-> << >>]
      /\ UNCHANGED <<registry, batchVars, guiVars, op, conv, docs>>

\* get_auth_headers on a client without a token: authenticate (lines
\* 31-66), which raises unless the status is 200
Authenticate ==
    /\ send.pc \in {"from_lookup", "to_lookup", "upload"}
    /\ ~ send.token
    /\ \E ok \in BOOLEAN :
         send' = [send EXCEPT !.log = Append(@, "authenticate"),
                              !.token = ok,
                              !.pc = IF ok THEN @ ELSE "raised"]
    /\ UNCHANGED <<registry, batchVars, guiVars, op, conv, docs>>

\* from_org = self.get_box_id_by_inn_kpp(from_inn, from_kpp) and the read
\* of its first box (lines 134-135)
LookupSender ==
    /\ send.pc = "from_lookup"
    /\ send.token
    /\ \E resp \in LookupResponses :
         send' = [send EXCEPT
                    !.log = Append(@, "lookup_sender"),
                    !.from_org = resp,
                    !.pc = IF LookupRaises(resp) \/ NoBox(resp)
                           THEN "raised" ELSE "to_lookup"]
    /\ UNCHANGED <<registry, batchVars, guiVars, op, conv, docs>>

\* to_org = self.get_box_id_by_inn_kpp(to_inn, to_kpp), the read of its
\* first box, and the test and the read of the document file (lines
\* 138-149)
LookupRecipient ==
    /\ send.pc = "to_lookup"
    /\ send.token
    /\ \E resp \in LookupResponses, exists \in BOOLEAN, readable \in BOOLEAN :
         /\ readable => exists
         /\ send' = [send EXCEPT
                       !.log = Append(@, "lookup_recipient"),
                       !.to_org = resp,
                       !.file = IF LookupRaises(resp) \/ NoBox(resp)
                                THEN @
                                ELSE IF ~ exists THEN "missing"
                                ELSE IF readable THEN "read"
                                ELSE "unreadable",
                       !.pc = IF LookupRaises(resp) \/ NoBox(resp)
                                 \/ DocumentRaises(exists, readable)
                              THEN "raised" ELSE "upload"]
    /\ UNCHANGED <<registry, batchVars, guiVars, op, conv, docs>>

\* requests.post to /V3/PostMessage (lines 180-203): the result is returned
\* for status 200, an exception raised otherwise
PostMessage ==
    /\ send.pc = "upload"
    /\ send.token
    /\ \E ok \in BOOLEAN :
         send' = [send EXCEPT !.log = Append(@, "upload"),
                              !.pc = IF ok THEN "returned" ELSE "raised"]
    /\ UNCHANGED <<registry, batchVars, guiVars, op, conv, docs>>

SendNext ==
    \/ SendCalled
    \/ Authenticate
    \/ LookupSender
    \/ LookupRecipient
    \/ PostMessage

SendSpec == RegistryInit /\ [][SendNext]_vars

\* position of request r in the log of the call, 0 when it was not made
MadeAt(r) ==
    IF \E k \in 1..Len(send.log) : send.log[k] = r
    THEN CHOOSE k \in 1..Len(send.log) : send.log[k] = r
    ELSE 0

\* C28: send_document makes the upload request only after the lookup of the
\* sender and then the lookup of the recipient each found an organization
\* and the document file was found; when a lookup finds none, or the file
\* is missing, the call raises and no upload request is made
C28_UploadAfterLookups ==
    send.pc # "idle" =>
        /\ MadeAt("upload") > 0 =>
              /\ 0 < MadeAt("lookup_sender")
              /\ MadeAt("lookup_sender") < MadeAt("lookup_recipient")
              /\ MadeAt("lookup_recipient") < MadeAt("upload")
              /\ send.from_org[1] = 200 /\ send.from_org[2] >= 1
              /\ send.to_org[1] = 200 /\ send.to_org[2] >= 1
              /\ send.file = "read"
        /\ (\/ send.from_org = <<200, 0, 0>>
            \/ send.to_org = <<200, 0, 0>>
            \/ send.file = "missing") =>
              (send.pc = "raised" /\ MadeAt("upload") = 0)

\* the recipient was not found after the sender was, and the call raised
C28_Witness ==
    /\ send.pc = "raised"
    /\ send.from_org = <<200, 2, 1>>
    /\ send.to_org = <<200, 0, 0>>
    /\ send.log = <<"authenticate", "lookup_sender", "lookup_recipient">>

(***************************************************************************)
(* DocumentProcessor.format_fio_short taken alone.  Names are written in   *)
(* Latin letters: "I" and "P" stand for the two letters of the prefix of a *)
(* sole proprietor, "ogly", "kyzy", "ugly", "kizy" for the four particles. *)
(***************************************************************************)
LowerLetters ==
    <<"a", "b", "c", "d", "e", "f", "g", "h", "i", "j", "k", "l", "m", "n",
      "o", "p", "q", "r", "s", "t", "u", "v", "w", "x", "y", "z">>

UpperLetters ==
    <<"A", "B", "C", "D", "E", "F", "G", "H", "I", "J", "K", "L", "M", "N",
      "O", "P", "Q", "R", "S", "T", "U", "V", "W", "X", "Y", "Z">>

\* str.upper(), str.lower()
UpperChar(c) ==
    IF \E k \in 1..Len(LowerLetters) : LowerLetters[k] = c
    THEN UpperLetters[CHOOSE k \in 1..Len(LowerLetters) : LowerLetters[k] = c]
    ELSE c

LowerChar(c) ==
    IF \E k \in 1..Len(UpperLetters) : UpperLetters[k] = c
    THEN LowerLetters[CHOOSE k \in 1..Len(UpperLetters) : UpperLetters[k] = c]
    ELSE c

UpperName(s) == [k \in 1..Len(s) |-> UpperChar(s[k])]

LowerName(s) == [k \in 1..Len(s) |-> LowerChar(s[k])]

RECURSIVE SplitWords(_)
\* str.split(): the words between runs of whitespace
SplitWords(s) ==
    LET t == LStrip(s)
        n == FirstIndexIn(t, Whitespace)
    IN IF t = << >> THEN << >>
       ELSE IF n = 0 THEN <<t>>
       ELSE <<SubSeq(t, 1, n - 1)>> \o SplitWords(SubSeq(t, n, Len(t)))

\* a variant for C29: no word is left out of the initials
ignore_endings_none == {}

\* ignore_endings (line 79)
ignore_endings ==
    {<<"o", "g", "l", "y">>, <<"k", "y", "z", "y">>, <<"u", "g", "l", "y">>,
     <<"k", "i", "z", "y">>}

\* fio.upper().startswith(prefix and a blank) (line 66)
HasIpPrefix(fio) ==
    Len(fio) >= 3 /\ SubSeq(UpperName(fio), 1, 3) = <<"I", "P", " ">>

RECURSIVE Initials(_)
\* the loop of lines 83-87 joined: one letter and a dot for every word that
\* is not an ignored ending
Initials(parts) ==
    IF parts = << >> THEN << >>
    ELSE (IF LowerName(Head(parts)) \notin ignore_endings
          THEN <<UpperChar(Head(parts)[1]), ".">> ELSE << >>)
         \o Initials(Tail(parts))

format_fio_short(full_fio) ==
    LET stripped == Strip(full_fio)
        fio   == IF HasIpPrefix(stripped)
                 THEN Strip(SubSeq(stripped, 4, Len(stripped)))
                 ELSE stripped
        parts == SplitWords(fio)
    IN IF Len(parts) = 0 THEN fio
       ELSE IF Initials(Tail(parts)) # << >>
            THEN Initials(Tail(parts)) \o <<" ">> \o parts[1]
            ELSE parts[1]

\* the characters short names are made of
FioChars == {"I", "P", "i", "v", " "}

RECURSIVE NamesOfLen(_)
NamesOfLen(n) ==
    IF n = 0 THEN {<< >>}
    ELSE {Append(s, c) : s \in NamesOfLen(n - 1), c \in FioChars}

IvanovFull ==
    <<"I", "v", "a", "n", "o", "v", " ", "I", "v", "a", "n", " ", "I", "v",
      "a", "n", "o", "v", "i", "c", "h">>

IpIvanovFull ==
    <<"I", "P", " ", "I", "v", "a", "n", "o", "v", " ", "I", "v", "a", "n",
      " ", "I", "v", "a", "n", "o", "v", "i", "c", "h">>

PetrovShortFull ==
    <<"P", "e", "t", "r", "o", "v", " ", "P", "e", "t", "r">>

GulievFull ==
    <<"G", "u", "l", "i", "e", "v", " ", "P", "a", "r", "v", "i", "z", " ",
      "O", "k", "t", "a", "y", " ", "O", "g", "l", "y">>

LowerCaseFull ==
    <<" ", " ", "i", "p", " ", "p", "e", "t", "r", "o", "v", " ", " ", "p",
      "e", "t", "r", " ", "k", "y", "z", "y", " ">>

PrefixOnlyFull ==
    <<"I", "p", " ", "M", "a", "n">>

\* the full names of the docstring, a name in lower case with the prefix,
\* blanks and a particle, a name whose first word is the prefix, and every
\* text of at most MaxFioLen characters
FioInputs ==
    UNION {NamesOfLen(n) : n \in 0..MaxFioLen}
        \cup {IvanovFull, IpIvanovFull, PetrovShortFull, GulievFull,
              LowerCaseFull, PrefixOnlyFull}

\* format_fio_short(full_fio) is called on a name
FormatFioShort ==
    \E full_fio \in FioInputs :
      /\ op = NoOp
      /\ op' = <<"format_fio_short", full_fio, format_fio_short(full_fio)>>
      /\ UNCHANGED <<registry, batchVars, guiVars, conv, send, docs>>

FioNext == FormatFioShort

FioSpec == RegistryInit /\ [][FioNext]_vars

\* the words of a name from which a leading prefix of a sole proprietor,
\* in any case, was taken
NameWords(s) ==
    LET w == SplitWords(s) IN
    IF Len(w) > 1 /\ UpperName(w[1]) = <<"I", "P">> /\ Strip(s)[3] = " "
    THEN Tail(w) ELSE w

\* the words after the surname that are no particle
GivenNames(w) ==
    SelectSeq(Tail(w), LAMBDA x : LowerName(x) \notin
        {<<"o", "g", "l", "y">>, <<"k", "y", "z", "y">>,
         <<"u", "g", "l", "y">>, <<"k", "i", "z", "y">>})

IvanovShort ==
    <<"I", ".", "I", ".", " ", "I", "v", "a", "n", "o", "v">>

PetrovShort ==
    <<"P", ".", " ", "P", "e", "t", "r", "o", "v">>

GulievShort ==
    <<"P", ".", "O", ".", " ", "G", "u", "l", "i", "e", "v">>

\* C29: format_fio_short returns, for a name of at least one word after the
\* prefix of a sole proprietor is dropped, one upper-case letter and a dot
\* for every word after the first that is no particle, then a blank and the
\* first word; the first word alone when there is no such word; the names
\* of the docstring give "I.I. Ivanov", "P. Petrov" and "P.O. Guliev"
C29_InitialsThenSurname ==
    op[1] = "format_fio_short" =>
        LET w == NameWords(op[2])
            g == IF w = << >> THEN << >> ELSE GivenNames(w)
        IN
        /\ op[2] = IvanovFull => op[3] = IvanovShort
        /\ op[2] = IpIvanovFull => op[3] = IvanovShort
        /\ op[2] = PetrovShortFull => op[3] = PetrovShort
        /\ op[2] = GulievFull => op[3] = GulievShort
        /\ (w # << >> /\ g = << >>) => op[3] = w[1]
        /\ (w # << >> /\ g # << >>) =>
              /\ Len(op[3]) = 2 * Len(g) + 1 + Len(w[1])
              /\ \A k \in 1..Len(g) :
                    /\ op[3][2 * k - 1] = UpperChar(g[k][1])
                    /\ op[3][2 * k] = "."
              /\ op[3][2 * Len(g) + 1] = " "
              /\ SubSeq(op[3], 2 * Len(g) + 2, Len(op[3])) = w[1]

\* the name with a particle was given, and the particle left no initial
C29_Witness ==
    /\ op[1] = "format_fio_short"
    /\ op[2] = GulievFull
    /\ op[3] = GulievShort

\* C30: handle_error returns only a decision whose button the operator has
\* pressed in the dialog of that call, and from the call to its return the
\* worker thread is in the loop of handle_error, where it runs no stage
C30_WorkerWaitsForChoice ==
    /\ \A k \in 1..Len(answers) :
          answers[k][1] \in Buttons /\ answers[k][2] = answers[k][1]
    /\ Len(answers) <= requests
    /\ requests > Len(answers) => thread = "waiting"
    /\ thread = "waiting" => processing

\* a first call returned the decision pressed; the dialog of a second call
\* was closed without a button and the worker is still in the loop
C30_Witness ==
    /\ requests = 2
    /\ answers = << <<"retry", "retry">> >>
    /\ dialog = "destroyed"
    /\ chosen = None
    /\ thread = "waiting"

(***************************************************************************)
(* Properties of the batch: what halts it, what it counts, what it sends.  *)
(***************************************************************************)
\* C31 (as stated): process_counterparties returns before its last
\* candidate only after an abort decision; a record that failed without one
\* (kind mismatch, failure with no error callback) is followed by the next
\* candidate
C31_OnlyAbortHalts ==
    (entry = CP /\ pc = "returned" /\ abortAt = 0) => i = Len(rows)

\* C32 (as stated): a skip decision, at whichever stage it is given, does
\* not end the record in failure; the record that ends after it returns
\* success, is counted, and the loop of the batch goes on
C32_SkipCountsAsSuccess ==
    [][ /\ (decision' = "skip" /\ pc' = "recdone") => ret'
        /\ decision' = "skip" => pc' \in {"recdone", "fill", "dbwrite"}
        /\ (pc = "recdone" /\ ret) =>
              /\ pc' = "loop"
              /\ processed' + created' = processed + created + 1
      ]_vars

\* C33 (as stated): whenever fill_ul_template is about to be called, both
\* position_gen and fio_gen have been assigned a string
C33_FillHasGenitive ==
    (pc = "fill" /\ branch = "ul") => (gen[1] # None /\ gen[2] # None)

\* C34 (as stated): in a run of process_counterparties without a retry
\* decision no tax ID is transmitted to twice.  Where no error callback is
\* installed there is no decision at all and every candidate written to the
\* registry was transmitted first, so a transmission made for the candidate
\* in hand is to a tax ID of no candidate written before
C34_OneTransmissionPerInn ==
    [][ (entry = CP /\ ~ error_callback /\ pc = "send" /\ pc' = "dbwrite") =>
            \A k \in recorded : rows[k].inn # rows[i].inn
      ]_vars

\* the bounds of the period are both dd.mm.yyyy dates
ValidBounds == StrpDate(date_from) # NoDate /\ StrpDate(date_to) # NoDate

\* C35 (as stated): with the listing read and valid bounds,
\* process_by_period does not end in an exception before it has taken the
\* first row of the listing into reconciliation
C35_PeriodRunsToCount ==
    (entry = BP /\ loaded /\ ValidBounds /\ Len(csv) > 0) =>
        ~ (pc = "raised" /\ i = 0)

TermInit ==
    /\ Init
    /\ csv = Listing(1, 2)

\* the steps of the worker inside a batch, but for the head of the loop of
\* process_by_period
WorkerStep ==
    \/ CounterpartiesLoop
    \/ CounterpartiesRecordDone
    \/ ReconcileRow
    \/ ReconcileDone
    \/ PeriodRecordDone
    \/ GetHeadAttempt
    \/ ConvertToGenitive
    \/ FillTemplate
    \/ SendDocument
    \/ AddCounterparty
    \/ ErrorCallback

\* PeriodLoop with the test of the date left open.  It is enabled where
\* PeriodLoop is, and a step of Next that is a step of it is a step of
\* PeriodLoop: no other action is enabled at the head of that loop
PeriodLoopAnyDate ==
    /\ decision' = None
    /\ pc = "loop"
    /\ entry = BP
    /\ IF i < Len(rows)
       THEN /\ i' = i + 1
            /\ result' = result
            /\ \E hand \in BOOLEAN :
                 IF hand /\ PeriodBranch(rows[i + 1].inn) # "none"
                 THEN EnterRecord(PeriodBranch(rows[i + 1].inn), NoCalls)
                 ELSE /\ calls' = NoCalls
                      /\ UNCHANGED <<pc, recVars, failedOpen, ret>>
       ELSE /\ pc' = "returned"
            /\ result' = <<created>>
            /\ UNCHANGED <<i, recVars, calls, failedOpen, ret>>
    /\ UNCHANGED <<registry, envVars, runVars, processed, created,
                   reconciled, succeeded, recorded, retries, abortAt>>

TermSpec ==
    /\ TermInit
    /\ [][Next]_vars
    /\ WF_vars(WorkerStep)
    /\ WF_vars(PeriodLoopAnyDate)

\* the worker is inside _process_ip / _process_ul
InRecord == pc \in {"lookup", "normalize", "fill", "send", "dbwrite",
                    "arbitrate"}

\* C37: for the row in hand each collaborator is called at most once more
\* than retry decisions were given, and the sink at most twice as often; a
\* record taken in hand ends, by a return or by the exception of
\* add_counterparty, and a batch that was started ends
C37_RecordAndBatchEnd ==
    /\ [](/\ \A c \in Counted \ {"arbitration"} : calls[c] <= retries + 1
          /\ calls["arbitration"] <= 2 * (retries + 1))
    /\ InRecord ~> (pc \in {"recdone", "raised"})
    /\ (entry # "none") ~> (pc \in {"returned", "raised"})

\* a batch of more than one candidate returned after its last record, one
\* retry decision given on the way
C37_Witness ==
    /\ entry = CP
    /\ pc = "returned"
    /\ retries = 1
    /\ Len(rows) > 1
    /\ i = Len(rows)
    /\ calls["lookup"] = 2

\* C38: self.processing is True exactly while a worker thread exists, a
\* thread is started only when there is none and the flag is down, and the
\* flag is cleared only by the processing_complete / processing_error the
\* thread that ended left with root.after
C38_OneWorker ==
    /\ [](processing <=> thread # "none")
    /\ [][ /\ starts' # starts =>
                /\ ~ processing
                /\ thread = "none"
                /\ processing'
                /\ thread' = "running"
                /\ starts' = starts + 1
           /\ (thread = "none" /\ thread' # "none") => starts' = starts + 1
           /\ (processing /\ ~ processing') =>
                /\ thread = "done"
                /\ pending \in {"processing_complete", "processing_error"}
                /\ thread' = "none"
         ]_vars

\* a second batch was started after the first had ended
C38_Witness ==
    /\ starts = 2
    /\ processing
    /\ thread = "waiting"
    /\ pending = "none"

(***************************************************************************)
(* DocumentProcessor taken alone: the path a document is saved under       *)
(* (_safe_filename, _ensure_output_dir, fill_ip_template,                  *)
(* fill_ul_template).  Names are character sequences.                      *)
(***************************************************************************)
\* documents the store is followed through
MaxDocs == 2

\* length of the longest display name, of every text over NameChars
MaxNameLen == 3

\* the class [\\/\:\*\?\"\<\>\|\r\n\t] of the first re.sub
Hostile == {"\\", "/", ":", "*", "?", "\"", "<", ">", "|", "\r", "\n", "\t"}

\* what \s matches
ReSpace == {" ", "\t", "\n", "\r", "\f"}

RECURSIVE DropRun(_, _)
DropRun(s, class) ==
    IF s # << >> /\ Head(s) \in class THEN DropRun(Tail(s), class) ELSE s

\* re.sub(r'[class]+', ' ', s): every run of the class becomes one blank
RECURSIVE SubRuns(_, _)
SubRuns(s, class) ==
    IF s = << >> THEN << >>
    ELSE IF Head(s) \in class
    THEN <<" ">> \o SubRuns(DropRun(s, class), class)
    ELSE <<Head(s)>> \o SubRuns(Tail(s), class)

RECURSIVE DropRunRight(_, _)
DropRunRight(s, class) ==
    IF s # << >> /\ s[Len(s)] \in class
    THEN DropRunRight(SubSeq(s, 1, Len(s) - 1), class)
    ELSE s

\* name[:n]
Truncated(s, n) == IF Len(s) > n THEN SubSeq(s, 1, n) ELSE s

\* the 140 of `return name[:140]`
safe_filename_limit == 140

\* DocumentProcessor._safe_filename
_safe_filename(text) ==
    LET name == SubRuns(SubRuns(text, Hostile), ReSpace) IN
    Truncated(DropRunRight(DropRun(name, {" ", "."}), {" ", "."}),
              safe_filename_limit)

\* f"Soglashenie_EDO_{self._safe_filename(name)}.docx"; the tax ID of the
\* counterparty is no part of it
OutName(name, inn) == <<"Soglashenie_EDO_", _safe_filename(name), ".docx">>

\* datetime.now().strftime("%d.%m.%y") of _ensure_output_dir
DateFolder == "20.01.24"

\* os.path.join(self.output_folder, company, date_folder, out_name)
DocPath(c, name, inn) == <<c, DateFolder, OutName(name, inn)>>

NameChars == {"A", "b", " ", ".", "/"}

RECURSIVE NameTextsOfLen(_)
NameTextsOfLen(n) ==
    IF n = 0 THEN {<< >>}
    ELSE {Append(s, c) : s \in NameTextsOfLen(n - 1), c \in NameChars}

\* display names: org_name of a row, or ip_full_name
DisplayNames == UNION {NameTextsOfLen(n) : n \in 1..MaxNameLen}

\* doc.save(out_path): a file already at the path is replaced
Saved(path, inn) ==
    {d \in docs : d.path # path} \cup {[path |-> path, inn |-> inn]}

\* fill_ul_template(company, org_name, inn, ...) when it does not raise
fill_ul_template ==
    \E c \in Companies, name \in DisplayNames, inn \in {InnAlfa, InnBeta} :
      /\ Cardinality(docs) < MaxDocs
      /\ docs' = Saved(DocPath(c, name, inn), inn)
      /\ op' = <<"fill_ul_template", c, DocPath(c, name, inn)>>
      /\ UNCHANGED <<registry, batchVars, guiVars, conv, send>>

\* fill_ip_template(company, ip_name, ip_inn, fio) when it does not raise
fill_ip_template ==
    \E c \in Companies, name \in DisplayNames, inn \in {InnIvanov} :
      /\ Cardinality(docs) < MaxDocs
      /\ docs' = Saved(DocPath(c, name, inn), inn)
      /\ op' = <<"fill_ip_template", c, DocPath(c, name, inn)>>
      /\ UNCHANGED <<registry, batchVars, guiVars, conv, send>>

PathNext == fill_ul_template \/ fill_ip_template

PathSpec == RegistryInit /\ [][PathNext]_vars

\* C39 (as stated): a document saved for one tax ID stays at its path when
\* a document is saved for another tax ID of the same company on the same
\* date, and documents of different tax IDs lie at different paths
C39_DistinctPaths ==
    [][ \A d \in docs : \E e \in docs' : e.path = d.path /\ e.inn = d.inn
      ]_vars

====
